---- MODULE Spec2Model ----
(***************************************************************************)
(* Dotfiles setup tool: the task contract (check / applySelection /        *)
(* execute), the five tasks, the interactive runner (index.ts main), the   *)
(* plain runner, the item selector and the animated installation screen.   *)
(*                                                                         *)
(* Text is modelled as a sequence of one-character strings, so that the    *)
(* list parsers are computed the way the code computes them (split, trim,  *)
(* startsWith, indexOf, substring, replace).                               *)
(***************************************************************************)
EXTENDS Integers, Sequences, FiniteSets, TLC

(***************************************************************************)
(* Bounds of the model.                                                    *)
(***************************************************************************)
\* longest line enumerated character by character in the list-file harness
MaxLineLen == 4
\* longest text put before / after a "--classic" token in the harness
MaxAffix == 1
\* most repositories the GitHub account holds in the runner
MaxRepos == 1

(***************************************************************************)
(* Generic sequence helpers.                                               *)
(***************************************************************************)
Range(s) == {s[i] : i \in DOMAIN s}

SetMin(S) == CHOOSE x \in S : \A y \in S : x <= y

RECURSIVE SelectSeqBy(_, _)
\* Array.prototype.filter with a membership test
SelectSeqBy(s, keep) ==
    IF s = <<>> THEN <<>>
    ELSE IF Head(s) \in keep THEN <<Head(s)>> \o SelectSeqBy(Tail(s), keep)
         ELSE SelectSeqBy(Tail(s), keep)

RECURSIVE SeqsUpTo(_, _)
\* all sequences over S of length at most n
SeqsUpTo(S, n) ==
    IF n = 0 THEN {<<>>}
    ELSE LET shorter == SeqsUpTo(S, n - 1)
         IN  shorter \cup {Append(s, x) : s \in {t \in shorter : Len(t) = n - 1}, x \in S}

(***************************************************************************)
(* JavaScript string primitives used by the list parsers.                  *)
(***************************************************************************)
Whitespace == {" ", "\t", "\r"}

RECURSIVE TrimStart(_)
TrimStart(s) ==
    IF s # <<>> /\ Head(s) \in Whitespace THEN TrimStart(Tail(s)) ELSE s

RECURSIVE TrimEnd(_)
TrimEnd(s) ==
    IF s # <<>> /\ s[Len(s)] \in Whitespace
    THEN TrimEnd(SubSeq(s, 1, Len(s) - 1))
    ELSE s

\* String.prototype.trim
Trim(s) == TrimEnd(TrimStart(s))

\* String.prototype.startsWith
StartsWith(s, p) == Len(s) >= Len(p) /\ SubSeq(s, 1, Len(p)) = p

\* String.prototype.indexOf: 0-based position of the first occurrence, or -1
IndexOf(s, p) ==
    LET hits == {i \in 1..(Len(s) - Len(p) + 1) : SubSeq(s, i, i + Len(p) - 1) = p}
    IN  IF hits = {} THEN -1 ELSE SetMin(hits) - 1

\* String.prototype.includes
Includes(s, p) == IndexOf(s, p) >= 0

\* String.prototype.substring(from, to), 0-based, to exclusive
Substring(s, from, to) == SubSeq(s, from + 1, to)

\* String.prototype.replace with a string pattern: first occurrence only
ReplaceFirst(s, p, r) ==
    LET i == IndexOf(s, p)
    IN  IF i < 0 THEN s
        ELSE SubSeq(s, 1, i) \o r \o SubSeq(s, i + Len(p) + 1, Len(s))

RECURSIVE SplitAcc(_, _, _)
SplitAcc(s, sep, cur) ==
    IF s = <<>> THEN <<cur>>
    ELSE IF Head(s) = sep THEN <<cur>> \o SplitAcc(Tail(s), sep, <<>>)
         ELSE SplitAcc(Tail(s), sep, Append(cur, Head(s)))

\* String.prototype.split on a one-character separator
Split(s, sep) == SplitAcc(s, sep, <<>>)

RECURSIVE Join(_, _)
\* Array.prototype.join
Join(parts, sep) ==
    IF parts = <<>> THEN <<>>
    ELSE IF Len(parts) = 1 THEN parts[1]
         ELSE parts[1] \o <<sep>> \o Join(Tail(parts), sep)

Hash == <<"#">>
ClassicFlag == <<"-", "-", "c", "l", "a", "s", "s", "i", "c">>

(***************************************************************************)
(* List files.                                                             *)
(***************************************************************************)
TextFile(content) == [exists |-> TRUE, readable |-> TRUE, text |-> content]
MissingFile == [exists |-> FALSE, readable |-> TRUE, text |-> <<>>]
\* a file that exists but whose text() rejects (unexpected I/O fault)
UnreadableFile == [exists |-> TRUE, readable |-> FALSE, text |-> <<>>]

(***************************************************************************)
(* SystemPackagesTask.check: the package list of apps.list.                *)
(***************************************************************************)
RECURSIVE SystemListFilter(_)
SystemListFilter(lines) ==
    IF lines = <<>> THEN <<>>
    ELSE LET line == Trim(Head(lines))
         IN  IF line # <<>> /\ ~StartsWith(line, Hash)
             THEN <<line>> \o SystemListFilter(Tail(lines))
             ELSE SystemListFilter(Tail(lines))

SystemPackageList(content) == SystemListFilter(Split(content, "\n"))

(***************************************************************************)
(* SnapPackagesTask.getSnapRequests.                                       *)
(***************************************************************************)
SnapRequestOfLine(rawLine) ==
    LET line1 == Trim(rawLine)
        skip  == line1 = <<>> \/ StartsWith(line1, Hash)
        line2 == IF Includes(line1, Hash)
                 THEN Trim(Substring(line1, 0, IndexOf(line1, Hash)))
                 ELSE line1
        classic == Includes(line2, ClassicFlag)
        line3 == IF classic THEN Trim(ReplaceFirst(line2, ClassicFlag, <<>>)) ELSE line2
    IN  IF skip \/ line3 = <<>> THEN <<>>
        ELSE <<[name |-> line3, flags |-> IF classic THEN <<ClassicFlag>> ELSE <<>>]>>

RECURSIVE SnapRequestsOfLines(_)
SnapRequestsOfLines(lines) ==
    IF lines = <<>> THEN <<>>
    ELSE SnapRequestOfLine(Head(lines)) \o SnapRequestsOfLines(Tail(lines))

getSnapRequests(content) == SnapRequestsOfLines(Split(content, "\n"))

(***************************************************************************)
(* External commands.  A command is recorded with the result the process   *)
(* primitive gave: "ok" (exit status 0 / output captured), "fail" (non-zero *)
(* exit status) or "throw" (the process could not be spawned).             *)
(***************************************************************************)
Outcomes == {"ok", "fail", "throw"}

Managers == <<"apt", "dnf", "pacman", "zypper">>

StateChangingOps ==
    {"refresh", "install", "install-snapd", "enable-snapd", "snap-install",
     "mkdir", "clone", "gsettings-set"}

QueryOps == {"query-installed", "snap-list", "http-get", "git-dir-exists"}

Cmd(op, args) == [op |-> op, args |-> args, flags |-> <<>>]

\* the mutant of RunCmdsFrom: a command that exits non-zero throws as well
RunCmdsFromStrict(cmdlist, outs, k) ==
    LET bad == {i \in DOMAIN cmdlist : outs[k + i - 1] # "ok"}
        n   == IF bad = {} THEN Len(cmdlist)
               ELSE CHOOSE i \in bad : \A j \in bad : i <= j
    IN  [log |-> [i \in 1..n |-> [op |-> cmdlist[i].op, args |-> cmdlist[i].args,
                                   flags |-> cmdlist[i].flags, out |-> outs[k + i - 1]]],
         threw |-> bad # {}]

RECURSIVE RunCmdsFrom(_, _, _)
\* issue the commands in order; a spawn failure ends the sequence
RunCmdsFrom(cmdlist, outs, k) ==
    IF cmdlist = <<>> THEN [log |-> <<>>, threw |-> FALSE]
    ELSE LET entry == [op |-> Head(cmdlist).op, args |-> Head(cmdlist).args,
                       flags |-> Head(cmdlist).flags, out |-> outs[k]]
         IN  IF outs[k] = "throw" THEN [log |-> <<entry>>, threw |-> TRUE]
             ELSE LET rest == RunCmdsFrom(Tail(cmdlist), outs, k + 1)
                  IN  [log |-> <<entry>> \o rest.log, threw |-> rest.threw]

RunCmds(cmdlist, outs) == RunCmdsFrom(cmdlist, outs, 1)

EmptyReport == [upToDate |-> <<>>, toInstall |-> <<>>, warnings |-> <<>>]

\* an advisory string of a report (detail: the HTTP status, where one is quoted)
Warning(msg) == [msg |-> msg, detail |-> 0]

(***************************************************************************)
(* SystemPackagesTask                                                      *)
(***************************************************************************)
RECURSIVE PartitionUpToDate(_, _)
PartitionUpToDate(names, installedSet) ==
    IF names = <<>> THEN <<>>
    ELSE (IF Head(names) \in installedSet THEN <<Head(names)>> ELSE <<>>)
         \o PartitionUpToDate(Tail(names), installedSet)

\* a diff that plans every requested name
PartitionToInstallAll(names, installedSet) == names

RECURSIVE PartitionToInstall(_, _)
PartitionToInstall(names, installedSet) ==
    IF names = <<>> THEN <<>>
    ELSE (IF Head(names) \in installedSet THEN <<>> ELSE <<Head(names)>>)
         \o PartitionToInstall(Tail(names), installedSet)

\* the mutant of SystemInstalledQuery: the package index is refreshed before
\* the installed packages are listed
SystemInstalledQueryRefreshing(pm, installed, queryOut) ==
    [log |-> <<[op |-> "refresh", args |-> <<>>, flags |-> <<>>, out |-> "ok"],
               [op |-> "query-installed", args |-> <<>>, flags |-> <<>>, out |-> queryOut]>>,
     set |-> IF queryOut = "throw" THEN {} ELSE installed]

\* getInstalledPackages: the query is issued for a known package manager; a
\* query that cannot be spawned is swallowed and yields the empty set
SystemInstalledQuery(pm, installed, queryOut) ==
    IF pm \in Range(Managers)
    THEN [log |-> <<[op |-> "query-installed", args |-> <<>>, flags |-> <<>>, out |-> queryOut]>>,
          set |-> IF queryOut = "throw" THEN {} ELSE installed]
    ELSE [log |-> <<>>, set |-> {}]

\* check(context): cur is _toInstall before the call
SystemCheck(file, pm, installed, queryOut, cur) ==
    IF ~file.exists
    THEN [threw |-> FALSE, toInstall |-> cur, log |-> <<>>,
          report |-> [EmptyReport EXCEPT !.warnings = <<Warning("apps.list not found")>>]]
    ELSE IF ~file.readable
    THEN [threw |-> TRUE, toInstall |-> cur, log |-> <<>>, report |-> EmptyReport]
    ELSE LET packages == SystemPackageList(file.text)
         IN  IF packages = <<>>
             THEN [threw |-> FALSE, toInstall |-> cur, log |-> <<>>, report |-> EmptyReport]
             ELSE LET q == SystemInstalledQuery(pm, installed, queryOut)
                      pending == PartitionToInstall(packages, q.set)
                  IN  [threw |-> FALSE, toInstall |-> pending, log |-> q.log,
                       report |-> [upToDate |-> PartitionUpToDate(packages, q.set),
                                   toInstall |-> pending,
                                   warnings |-> <<>>]]

\* the mutant of updateRepositories: the refresh is issued twice
updateRepositoriesTwice(pm) ==
    IF pm \in Range(Managers) THEN <<Cmd("refresh", <<>>), Cmd("refresh", <<>>)>> ELSE <<>>

\* updateRepositories(context)
updateRepositories(pm) ==
    IF pm \in Range(Managers) THEN <<Cmd("refresh", <<>>)>> ELSE <<>>

RECURSIVE IndividualInstalls(_)
IndividualInstalls(packages) ==
    IF packages = <<>> THEN <<>>
    ELSE <<Cmd("install", <<Head(packages)>>)>> \o IndividualInstalls(Tail(packages))

\* an installPackages without the retry
installPackagesBatchOnly(packages, batchOut) == <<Cmd("install", packages)>>

\* installPackages: the batch invocation, then one invocation per package
\* when the batch invocation reported failure
installPackages(packages, batchOut) ==
    <<Cmd("install", packages)>>
    \o (IF batchOut = "fail" THEN IndividualInstalls(packages) ELSE <<>>)

\* execute(context): the commands issued and whether execute threw
SystemExecute(pm, toInstall, outs) ==
    IF toInstall = <<>> THEN [log |-> <<>>, threw |-> FALSE]
    ELSE LET refresh == updateRepositories(pm)
             batchOut == outs[Len(refresh) + 1]
         IN  RunCmds(refresh \o installPackages(toInstall, batchOut), outs)

(***************************************************************************)
(* SnapPackagesTask                                                        *)
(***************************************************************************)
RECURSIVE SnapNames(_)
SnapNames(requests) ==
    IF requests = <<>> THEN <<>>
    ELSE <<Head(requests).name>> \o SnapNames(Tail(requests))

RECURSIVE SnapPending(_, _)
SnapPending(requests, installedSet) ==
    IF requests = <<>> THEN <<>>
    ELSE (IF Head(requests).name \in installedSet THEN <<>> ELSE <<Head(requests)>>)
         \o SnapPending(Tail(requests), installedSet)

\* getInstalledSnaps: a failing "snap list" is swallowed
SnapInstalledQuery(installed, queryOut) ==
    [log |-> <<[op |-> "snap-list", args |-> <<>>, flags |-> <<>>, out |-> queryOut]>>,
     set |-> IF queryOut = "throw" THEN {} ELSE installed]

\* a check that keeps quiet about the missing tool
SnapdWarningsNone(hasSnap) == <<>>

\* check, lines 39-43: without the snap tool the report warns that snapd
\* will be installed first
SnapdWarnings(hasSnap) ==
    IF hasSnap THEN <<>> ELSE <<Warning("Snapd is missing")>>

\* check(context): _toInstall and _needsSnapd are reset first
SnapCheck(file, hasSnap, installed, queryOut) ==
    IF ~file.exists
    THEN [threw |-> FALSE, toInstall |-> <<>>, needsSnapd |-> FALSE, log |-> <<>>,
          report |-> [EmptyReport EXCEPT !.warnings = <<Warning("snap-apps.list not found")>>]]
    ELSE IF ~file.readable
    THEN [threw |-> TRUE, toInstall |-> <<>>, needsSnapd |-> FALSE, log |-> <<>>,
          report |-> EmptyReport]
    ELSE LET requests == getSnapRequests(file.text)
         IN  IF requests = <<>>
             THEN [threw |-> FALSE, toInstall |-> <<>>, needsSnapd |-> FALSE,
                   log |-> <<>>, report |-> EmptyReport]
             ELSE LET q == IF hasSnap THEN SnapInstalledQuery(installed, queryOut)
                                      ELSE [log |-> <<>>, set |-> {}]
                      pending == SnapPending(requests, q.set)
                  IN  [threw |-> FALSE, toInstall |-> pending, needsSnapd |-> ~hasSnap,
                       log |-> q.log,
                       report |-> [upToDate |-> PartitionUpToDate(SnapNames(requests), q.set),
                                   toInstall |-> SnapNames(pending),
                                   warnings |-> SnapdWarnings(hasSnap)]]

RECURSIVE SpliceWhileIterating(_, _)
\* a removal by splice inside an index loop: the element after a removed one
\* is not looked at
SpliceWhileIterating(toInstall, selectedItems) ==
    IF toInstall = <<>> THEN <<>>
    ELSE IF Head(toInstall).name \in selectedItems
    THEN <<Head(toInstall)>> \o SpliceWhileIterating(Tail(toInstall), selectedItems)
    ELSE IF Tail(toInstall) = <<>> THEN <<>>
    ELSE <<Head(Tail(toInstall))>>
         \o SpliceWhileIterating(Tail(Tail(toInstall)), selectedItems)

\* applySelection with the filter replaced by the splice loop
SnapApplySelectionSplice(toInstall, needsSnapd, selectedItems) ==
    LET kept == SpliceWhileIterating(toInstall, selectedItems)
    IN  [toInstall |-> kept,
         needsSnapd |-> IF kept = <<>> THEN FALSE ELSE needsSnapd]

\* the mutant of SnapApplySelection: the pending requests are left as they are
SnapApplySelectionKeep(toInstall, needsSnapd, selectedItems) ==
    [toInstall |-> toInstall, needsSnapd |-> needsSnapd]

\* applySelection(selectedItems)
SnapApplySelection(toInstall, needsSnapd, selectedItems) ==
    LET kept == SelectSeq(toInstall, LAMBDA req : req.name \in selectedItems)
    IN  [toInstall |-> kept,
         needsSnapd |-> IF kept = <<>> THEN FALSE ELSE needsSnapd]

installSnapd(pm) ==
    IF pm \in Range(Managers) THEN <<Cmd("install-snapd", <<>>)>> ELSE <<>>

RECURSIVE SnapInstallsNoFlags(_)
\* the mutant of SnapInstalls: the recorded flags are not passed on
SnapInstallsNoFlags(requests) ==
    IF requests = <<>> THEN <<>>
    ELSE <<Cmd("snap-install", <<Head(requests).name>>)>> \o SnapInstallsNoFlags(Tail(requests))

RECURSIVE SnapInstalls(_)
\* the loop of execute: one `snap install <name> <flags>` per pending request
SnapInstalls(requests) ==
    IF requests = <<>> THEN <<>>
    ELSE <<[op |-> "snap-install", args |-> <<Head(requests).name>>,
            flags |-> Head(requests).flags]>>
         \o SnapInstalls(Tail(requests))

\* execute(context)
SnapExecute(pm, toInstall, needsSnapd, hasSystemctl, outs) ==
    IF toInstall = <<>> THEN [log |-> <<>>, threw |-> FALSE]
    ELSE LET prep == IF needsSnapd
                     THEN installSnapd(pm)
                          \o (IF hasSystemctl THEN <<Cmd("enable-snapd", <<>>)>> ELSE <<>>)
                     ELSE <<>>
         IN  RunCmds(prep \o SnapInstalls(toInstall), outs)

(***************************************************************************)
(* GitHubReposCloneTask.  A repository is identified by its full_name; the *)
(* server is a sequence of page responses, followed by empty pages.        *)
(***************************************************************************)
RepoPage(names) == [ok |-> TRUE, status |-> 200, isArray |-> TRUE, repos |-> names]
ErrorPage(status) == [ok |-> FALSE, status |-> status, isArray |-> FALSE, repos |-> <<>>]
\* a 2xx response whose body is not an array
NonArrayPage == [ok |-> TRUE, status |-> 200, isArray |-> FALSE, repos |-> <<>>]

ServerResponse(pages, page) == IF page <= Len(pages) THEN pages[page] ELSE RepoPage(<<>>)

RECURSIVE FetchFrom(_, _, _)
\* a loop that leaves at a response that is not 2xx as it leaves at an empty
\* page, with the repositories collected so far
FetchFromKeepPartial(pages, page, allRepos) ==
    LET response == ServerResponse(pages, page)
        request  == [op |-> "http-get", args |-> <<page>>, flags |-> <<>>,
                     out |-> IF response.ok THEN "ok" ELSE "fail"]
    IN  IF ~response.ok \/ ~response.isArray \/ response.repos = <<>>
        THEN [threw |-> FALSE, status |-> response.status, repos |-> allRepos,
              log |-> <<request>>]
        ELSE LET rest == FetchFrom(pages, page + 1, allRepos \o response.repos)
             IN  [rest EXCEPT !.log = <<request>> \o rest.log]

\* the loop of fetchAllRepos from page on
FetchFrom(pages, page, allRepos) ==
    LET response == ServerResponse(pages, page)
        request  == [op |-> "http-get", args |-> <<page>>, flags |-> <<>>,
                     out |-> IF response.ok THEN "ok" ELSE "fail"]
    IN  IF ~response.ok
        THEN [threw |-> TRUE, status |-> response.status, repos |-> <<>>, log |-> <<request>>]
        ELSE IF ~response.isArray \/ response.repos = <<>>
        THEN [threw |-> FALSE, status |-> response.status, repos |-> allRepos,
              log |-> <<request>>]
        ELSE LET rest == FetchFrom(pages, page + 1, allRepos \o response.repos)
             IN  [rest EXCEPT !.log = <<request>> \o rest.log]

\* a fetch that takes the second page for the last
fetchAllReposTwoPages(pages) ==
    FetchFrom(SubSeq(pages, 1, IF Len(pages) < 2 THEN Len(pages) ELSE 2), 1, <<>>)

\* fetchAllRepos()
fetchAllRepos(pages) == FetchFrom(pages, 1, <<>>)

\* a check that goes on without git
GitMissingNever(hasGit) == FALSE

\* check, line 35: !Bun.which("git")
GitMissing(hasGit) == ~hasGit

\* check(context): _repos and _selectedRepoNames are reset first
GitHubCheck(hasGit, authToken, pages) ==
    IF GitMissing(hasGit)
    THEN [threw |-> FALSE, repos |-> <<>>, selected |-> {}, log |-> <<>>,
          report |-> [EmptyReport EXCEPT !.warnings = <<Warning("git is not installed")>>]]
    ELSE IF authToken = <<>>
    THEN [threw |-> FALSE, repos |-> <<>>, selected |-> {}, log |-> <<>>,
          report |-> [EmptyReport EXCEPT !.warnings = <<Warning("GitHub token is not provided")>>]]
    ELSE LET f == fetchAllRepos(pages)
         IN  IF f.threw
             THEN [threw |-> FALSE, repos |-> <<>>, selected |-> {}, log |-> f.log,
                   report |-> [EmptyReport EXCEPT
                                 !.warnings = <<[msg |-> "Failed to fetch GitHub repository list", detail |-> f.status]>>]]
             ELSE [threw |-> FALSE, repos |-> f.repos, selected |-> Range(f.repos),
                   log |-> f.log,
                   report |-> [upToDate |-> <<>>, toInstall |-> f.repos,
                               warnings |-> IF f.repos = <<>>
                                            THEN <<Warning("No repositories found")>>
                                            ELSE <<Warning("Repositories will be cloned")>>]]

\* isAlreadyCloned(targetDir): whether targetDir/.git exists
GitDirProbe(repo, cloned) ==
    [op |-> "git-dir-exists", args |-> <<repo>>, flags |-> <<>>,
     out |-> IF repo \in cloned THEN "present" ELSE "absent"]

\* the mutant of isAlreadyCloned: no directory counts as cloned
isAlreadyClonedNever(repo, cloned) == FALSE

\* isAlreadyCloned(repoDir)
isAlreadyCloned(repo, cloned) == repo \in cloned

\* the mutant of CloneEndsExecute: a clone that exits non-zero ends the loop
CloneEndsExecuteOnFailure(one) ==
    one.threw \/ \E i \in DOMAIN one.log : one.log[i].out = "fail"

\* whether the commands of one repository end execute: only a command that
\* could not be spawned does; a clone that exits non-zero is logged as an
\* error and the loop goes on
CloneEndsExecute(one) == one.threw

RECURSIVE CloneRun(_, _, _, _, _)
\* the loop of execute from one repository on: a deselected repository is
\* skipped, an already cloned one is skipped after the look at its .git, any
\* other gets its parent directory and its clone; outs[k] is the result of
\* the next command
CloneRun(repos, selected, cloned, outs, k) ==
    IF repos = <<>> THEN [log |-> <<>>, threw |-> FALSE]
    ELSE IF Head(repos) \notin selected
    THEN CloneRun(Tail(repos), selected, cloned, outs, k)
    ELSE LET probe == GitDirProbe(Head(repos), cloned)
         IN  IF isAlreadyCloned(Head(repos), cloned)
             THEN LET rest == CloneRun(Tail(repos), selected, cloned, outs, k)
                  IN  [rest EXCEPT !.log = <<probe>> \o rest.log]
             ELSE LET one == RunCmdsFrom(<<Cmd("mkdir", <<Head(repos)>>),
                                          Cmd("clone", <<Head(repos)>>)>>, outs, k)
                  IN  IF CloneEndsExecute(one) THEN [one EXCEPT !.log = <<probe>> \o one.log]
                      ELSE LET rest == CloneRun(Tail(repos), selected, cloned, outs, k + 2)
                           IN  [rest EXCEPT !.log = <<probe>> \o one.log \o rest.log]

\* execute(context)
GitHubExecute(authToken, repos, selected, cloned, outs) ==
    IF authToken = <<>> \/ repos = <<>> THEN [log |-> <<>>, threw |-> FALSE]
    ELSE LET base == RunCmdsFrom(<<Cmd("mkdir", <<>>)>>, outs, 1)
         IN  IF base.threw THEN base
             ELSE LET rest == CloneRun(repos, selected, cloned, outs, 2)
                  IN  [rest EXCEPT !.log = base.log \o rest.log]

(***************************************************************************)
(* GnomeSettingsTask and DotfilesTask                                      *)
(***************************************************************************)
GnomeCheck(hasGsettings) ==
    [threw |-> FALSE, log |-> <<>>,
     report |-> IF hasGsettings THEN EmptyReport
                ELSE [EmptyReport EXCEPT !.warnings = <<Warning("gsettings not found")>>]]

GnomeExecute(hasGsettings, outs) ==
    IF ~hasGsettings THEN [log |-> <<>>, threw |-> FALSE]
    ELSE RunCmds(<<Cmd("gsettings-set", <<>>)>>, outs)

DotfilesCheck ==
    [threw |-> FALSE, log |-> <<>>,
     report |-> [EmptyReport EXCEPT !.warnings = <<Warning("Dotfiles linking not fully implemented")>>]]

DotfilesExecute == [log |-> <<>>, threw |-> FALSE]

(***************************************************************************)
(* The runners.                                                            *)
(***************************************************************************)
VARIABLES
    mode,                 \* which program runs: "tui" (interactive main), ...
    pc,                   \* position of main
    exitReason,           \* why the process exited, "none" while it runs
    packageManager, isSudo,                        \* SystemContext
    sys_toInstall,                                 \* SystemPackagesTask._toInstall
    snap_toInstall, snap_needsSnapd,               \* SnapPackagesTask
    gh_authToken, gh_repos, gh_selectedRepoNames,  \* GitHubReposCloneTask
    cursorIndex,          \* cursor of the selector on screen
    selectedTaskIds,      \* task selector: the Set, in insertion order
    token,                \* token prompt: the text typed so far
    selectedTaskSet,      \* main: the tasks left to run
    filteredTasks,        \* main: the tasks to run, in definition order
    taskIndex,            \* main: loop position in filteredTasks (1-based)
    hasPendingWork, selectableCategories, uiWarnings,
    selectedItems,        \* item selector: ids of the selected items
    selection,            \* main: the result of the item selector
    confirmed,            \* main: the answer to the final confirmation
    planSelectEntered,    \* history: main called the item selector
    animatedContext,      \* the context handed to execute
    steps, states, results, spinnerIndex, intervalActive, rendererLive,
    calls,                \* history: task operations in call order
    inflight,             \* history: positions in calls of the operations not yet returned
    cmds,                 \* history: external commands and HTTP requests issued
    reports,              \* history: what each check returned, with its inputs
    runs,                 \* history: how each step's run settled
    failures              \* history: task operations that threw

vars ==
    <<mode, pc, exitReason, packageManager, isSudo,
      sys_toInstall, snap_toInstall, snap_needsSnapd,
      gh_authToken, gh_repos, gh_selectedRepoNames,
      cursorIndex, selectedTaskIds, token, selectedTaskSet, filteredTasks, taskIndex,
      hasPendingWork, selectableCategories, uiWarnings, selectedItems,
      selection, confirmed, planSelectEntered, animatedContext,
      steps, states, results, spinnerIndex, intervalActive, rendererLive,
      calls, inflight, cmds, reports, runs, failures>>

ctxVars == <<packageManager, isSudo>>
sysVars == <<sys_toInstall>>
snapVars == <<snap_toInstall, snap_needsSnapd>>
ghVars == <<gh_authToken, gh_repos, gh_selectedRepoNames>>
taskVars == <<sys_toInstall, snap_toInstall, snap_needsSnapd,
              gh_authToken, gh_repos, gh_selectedRepoNames>>
selectorVars == <<cursorIndex, selectedTaskIds, token, selectedItems>>
planVars == <<hasPendingWork, selectableCategories, uiWarnings>>
flowVars == <<selection, confirmed, planSelectEntered>>
animVars == <<steps, states, results, spinnerIndex, intervalActive, rendererLive>>
histVars == <<calls, inflight, cmds, reports, runs, failures>>

\* taskEntries of main, in definition order
TaskOrder ==
    <<"system-packages", "dotfiles", "snap-packages", "gnome-settings", "github-repos">>

TaskIds == Range(TaskOrder)

\* the tasks of the plain runner
PlainTasks == <<"system-packages", "dotfiles", "snap-packages", "gnome-settings">>

\* ITask.name
TaskName(id) ==
    CASE id = "system-packages" -> "Install System Packages"
      [] id = "dotfiles"        -> "Link Dotfiles"
      [] id = "snap-packages"   -> "Install Snap Applications"
      [] id = "gnome-settings"  -> "Configure Gnome Settings"
      [] id = "github-repos"    -> "Clone GitHub Repositories"

\* the tasks that implement applySelection
HasApplySelection(id) == id \in {"snap-packages", "github-repos"}

SPINNER_FRAMES_LENGTH == 8

\* the two programs with a main: the interactive runner and the plain runner
RunnerModes == {"tui", "plain"}

(***************************************************************************)
(* What the environment may answer in the runners.                         *)
(***************************************************************************)
\* the text of the list files the runners are run against
RunnerAppsText == <<"g", "\n", "v">>
RunnerSnapText == <<"s", " ">> \o ClassicFlag

RunnerAppsFiles == {MissingFile, UnreadableFile, TextFile(RunnerAppsText)}
RunnerSnapFiles == {MissingFile, UnreadableFile, TextFile(RunnerSnapText)}

\* the installed (or already cloned) sets the runners are run against
RunnerPresentSets(names) == {{}, Range(names)}

\* the package managers found on the PATH
RunnerManagerSets == {{}, {"dnf", "zypper"}}

\* results of the commands of one execute in the runners: every command
\* succeeds, or the first one cannot be spawned
RunnerOutcomeSeqs(n) ==
    {[i \in 1..n |-> IF i = k THEN "throw" ELSE "ok"] : k \in 0..1}

\* most refreshes of the spinner followed in the runners
MaxRunnerTicks == 1

Digits == <<"1", "2", "3", "4", "5", "6", "7", "8", "9">>

RepoNames == [i \in 1..MaxRepos |-> <<"r", Digits[i]>>]

\* the GitHub server: an account of n repositories served one per page, an
\* authentication failure, and a failure after the first page
RunnerServers ==
    {[i \in 1..n |-> RepoPage(<<RepoNames[i]>>)] : n \in {0, MaxRepos}}
    \cup {<<ErrorPage(401)>>, <<RepoPage(<<RepoNames[1]>>), ErrorPage(500)>>}

\* the keys typed into the token prompt in the runner, in this order
RunnerTokenText == <<" ", "t", " ">>

\* the item selector's answer when it is cancelled (and before it is asked)
NoSelection == [confirmed |-> FALSE, selectedByCategory |-> <<>>]

\* the state before main (or a harness) starts
Blank(m, p, pm, stepList) ==
    /\ mode = m
    /\ pc = p
    /\ exitReason = "none"
    /\ packageManager = pm
    /\ isSudo = FALSE
    /\ sys_toInstall = <<>>
    /\ snap_toInstall = <<>>
    /\ snap_needsSnapd = FALSE
    /\ gh_authToken = <<>>
    /\ gh_repos = <<>>
    /\ gh_selectedRepoNames = {}
    /\ cursorIndex = 0
    /\ selectedTaskIds = <<>>
    /\ token = <<>>
    /\ selectedTaskSet = {}
    /\ filteredTasks = <<>>
    /\ taskIndex = 0
    /\ hasPendingWork = FALSE
    /\ selectableCategories = <<>>
    /\ uiWarnings = <<>>
    /\ selectedItems = {}
    /\ selection = NoSelection
    /\ confirmed = FALSE
    /\ planSelectEntered = FALSE
    /\ animatedContext = [packageManager |-> "", isSudo |-> FALSE]
    /\ steps = stepList
    /\ states = <<>>
    /\ results = <<>>
    /\ spinnerIndex = 0
    /\ intervalActive = FALSE
    /\ rendererLive = FALSE
    /\ calls = <<>>
    /\ inflight = {}
    /\ cmds = <<>>
    /\ reports = <<>>
    /\ runs = <<>>
    /\ failures = {}

\* either runner at the start of main
Init == \E m \in RunnerModes : Blank(m, "init", "", <<>>)

\* a history entry of cmds: the command with the task that issued it
RECURSIVE Tagged(_, _)
Tagged(log, who) ==
    IF log = <<>> THEN <<>>
    ELSE <<[task |-> who, op |-> Head(log).op, args |-> Head(log).args,
            flags |-> Head(log).flags, out |-> Head(log).out]>>
         \o Tagged(Tail(log), who)

(***************************************************************************)
(* SystemContext.initialize and the exit of main when it throws.           *)
(***************************************************************************)
\* detectPackageManager: the first of apt, dnf, pacman, zypper on the PATH
detectPackageManager(present) ==
    LET found == {i \in DOMAIN Managers : Managers[i] \in present}
    IN  IF found = {} THEN "" ELSE Managers[SetMin(found)]

\* the mutant of InitializeThrows: initialize always returns
InitializeThrowsNever(idOut, pm) == FALSE

\* initialize throws when `id -u` cannot be spawned or when
\* detectPackageManager finds none of the managers
InitializeThrows(idOut, pm) == idOut = "throw" \/ pm = ""

\* initialize, lines 45-58: isSudo after `id -u` and, for a user other than
\* root, `sudo -v`, whose exit status is not looked at; only a sudo that
\* cannot be spawned is caught
SudoAfterInitialize(idOut, isRoot, sudoOut) ==
    idOut = "ok" /\ (isRoot \/ sudoOut # "throw")

\* the commands initialize runs before it looks for a package manager
InitializeCmds(idOut, isRoot, sudoOut) ==
    <<[op |-> "id-u", args |-> <<>>, flags |-> <<>>,
       out |-> IF idOut = "throw" THEN "throw" ELSE IF isRoot THEN "root" ELSE "user"]>>
    \o (IF idOut = "ok" /\ ~isRoot
        THEN <<[op |-> "sudo-v", args |-> <<>>, flags |-> <<>>, out |-> sudoOut]>>
        ELSE <<>>)

Initialize ==
    /\ pc = "init"
    /\ \E idOut \in {"ok", "throw"}, isRoot \in BOOLEAN, sudoOut \in Outcomes,
          present \in RunnerManagerSets :
          LET pm == IF idOut = "throw" THEN "" ELSE detectPackageManager(present)
          IN  /\ isSudo' = SudoAfterInitialize(idOut, isRoot, sudoOut)
              /\ packageManager' = pm
              /\ IF InitializeThrows(idOut, pm)
                 THEN /\ pc' = "exit1"
                      /\ exitReason' = "init-failed"
                      /\ UNCHANGED <<selectedTaskIds, cursorIndex, filteredTasks, taskIndex>>
                 ELSE IF mode = "tui"
                 THEN /\ pc' = "taskSelect"
                      /\ exitReason' = "none"
                      \* selectTasksWithOpenTui: every option is selectedByDefault
                      /\ selectedTaskIds' = TaskOrder
                      /\ cursorIndex' = 0
                      /\ UNCHANGED <<filteredTasks, taskIndex>>
                 ELSE \* the plain runner checks its four tasks at once
                      /\ pc' = "preCheck"
                      /\ exitReason' = "none"
                      /\ filteredTasks' = PlainTasks
                      /\ taskIndex' = 1
                      /\ UNCHANGED <<selectedTaskIds, cursorIndex>>
    /\ UNCHANGED <<mode, taskVars, token, selectedItems, selectedTaskSet,
                   planVars, flowVars, animatedContext, animVars, histVars>>

(***************************************************************************)
(* selectTasksWithOpenTui: onKeyPress, and main up to the next prompt.     *)
(***************************************************************************)
\* a JavaScript Set in insertion order
SetDelete(seq, x) == SelectSeq(seq, LAMBDA y : y # x)
SetAdd(seq, x) == IF x \in Range(seq) THEN seq ELSE Append(seq, x)

RECURSIVE SetAddAll(_, _)
SetAddAll(seq, xs) ==
    IF xs = <<>> THEN seq ELSE SetAddAll(SetAdd(seq, Head(xs)), Tail(xs))

\* the mutant of FilterTasks: the selected tasks in the reverse of the order
\* of taskEntries
FilterTasksReversed(taskSet) ==
    SelectSeq([i \in DOMAIN TaskOrder |-> TaskOrder[Len(TaskOrder) + 1 - i]],
              LAMBDA id : id \in taskSet)

\* taskEntries.filter(entry => selectedTaskSet.has(entry.id))
FilterTasks(taskSet) == SelectSeq(TaskOrder, LAMBDA id : id \in taskSet)

\* main, lines 129-142: the tasks to run are fixed and PreCheck begins, or
\* the process exits with status 0 when none is left
BeginPreCheck(taskSet) ==
    /\ selectedTaskSet' = taskSet
    /\ filteredTasks' = FilterTasks(taskSet)
    /\ IF FilterTasks(taskSet) = <<>>
       THEN /\ pc' = "exit0"
            /\ exitReason' = "no-task"
            /\ taskIndex' = 0
       ELSE /\ pc' = "preCheck"
            /\ exitReason' = "none"
            /\ taskIndex' = 1

\* a mutant of AfterTokenCancel: a cancelled token prompt drops every task
AfterTokenCancelNone(taskSet) == {}

\* the mutant of AfterTokenCancel: the GitHub task stays among the tasks
AfterTokenCancelKeep(taskSet) == taskSet

\* main, lines 117-122: a cancelled token prompt takes the GitHub task out
AfterTokenCancel(taskSet) == taskSet \ {"github-repos"}

TaskSelectMove ==
    /\ pc = "taskSelect"
    /\ \E key \in {"up", "down"} :
          cursorIndex' =
             IF key = "up"
             THEN (IF cursorIndex <= 0 THEN Len(TaskOrder) - 1 ELSE cursorIndex - 1)
             ELSE (IF cursorIndex >= Len(TaskOrder) - 1 THEN 0 ELSE cursorIndex + 1)
    /\ UNCHANGED <<mode, pc, exitReason, ctxVars, taskVars, selectedTaskIds,
                   token, selectedItems, selectedTaskSet, filteredTasks, taskIndex,
                   planVars, flowVars, animatedContext, animVars, histVars>>

TaskSelectToggle ==
    /\ pc = "taskSelect"
    /\ LET current == TaskOrder[cursorIndex + 1]
       IN  selectedTaskIds' = IF current \in Range(selectedTaskIds)
                              THEN SetDelete(selectedTaskIds, current)
                              ELSE SetAdd(selectedTaskIds, current)
    /\ UNCHANGED <<mode, pc, exitReason, ctxVars, taskVars, cursorIndex,
                   token, selectedItems, selectedTaskSet, filteredTasks, taskIndex,
                   planVars, flowVars, animatedContext, animVars, histVars>>

TaskSelectToggleAll ==
    /\ pc = "taskSelect"
    /\ selectedTaskIds' = IF Len(selectedTaskIds) = Len(TaskOrder)
                          THEN <<>>
                          ELSE SetAddAll(selectedTaskIds, TaskOrder)
    /\ UNCHANGED <<mode, pc, exitReason, ctxVars, taskVars, cursorIndex,
                   token, selectedItems, selectedTaskSet, filteredTasks, taskIndex,
                   planVars, flowVars, animatedContext, animVars, histVars>>

\* Enter: the selector returns and main goes on to the token prompt or PreCheck
TaskSelectEnter ==
    /\ pc = "taskSelect"
    /\ selectedTaskIds' = <<>>
    /\ cursorIndex' = 0
    /\ IF "github-repos" \in Range(selectedTaskIds)
       THEN /\ pc' = "tokenPrompt"
            /\ selectedTaskSet' = Range(selectedTaskIds)
            /\ UNCHANGED <<exitReason, filteredTasks, taskIndex>>
       ELSE BeginPreCheck(Range(selectedTaskIds))
    /\ UNCHANGED <<mode, ctxVars, taskVars, token, selectedItems,
                   planVars, flowVars, animatedContext, animVars, histVars>>

\* Escape: the selector returns confirmed = false and main exits with status 0
TaskSelectEscape ==
    /\ pc = "taskSelect"
    /\ selectedTaskIds' = <<>>
    /\ cursorIndex' = 0
    /\ pc' = "exit0"
    /\ exitReason' = "task-cancel"
    /\ UNCHANGED <<mode, ctxVars, taskVars, token, selectedItems, selectedTaskSet,
                   filteredTasks, taskIndex, planVars, flowVars,
                   animatedContext, animVars, histVars>>

(***************************************************************************)
(* promptGitHubTokenWithOpenTui: onKeyPress, and main up to PreCheck.      *)
(***************************************************************************)
TokenType ==
    /\ pc = "tokenPrompt"
    /\ Len(token) < Len(RunnerTokenText)
    /\ token' = Append(token, RunnerTokenText[Len(token) + 1])
    /\ UNCHANGED <<mode, pc, exitReason, ctxVars, taskVars, cursorIndex,
                   selectedTaskIds, selectedItems, selectedTaskSet, filteredTasks,
                   taskIndex, planVars, flowVars, animatedContext, animVars,
                   histVars>>

TokenBackspace ==
    /\ pc = "tokenPrompt"
    /\ token' = IF Len(token) > 0 THEN SubSeq(token, 1, Len(token) - 1) ELSE token
    /\ UNCHANGED <<mode, pc, exitReason, ctxVars, taskVars, cursorIndex,
                   selectedTaskIds, selectedItems, selectedTaskSet, filteredTasks,
                   taskIndex, planVars, flowVars, animatedContext, animVars,
                   histVars>>

\* Enter: ignored while the trimmed token is empty; otherwise the prompt
\* returns it, main hands it to setAuthToken and goes on to PreCheck
TokenEnter ==
    /\ pc = "tokenPrompt"
    /\ IF Trim(token) = <<>>
       THEN UNCHANGED <<pc, exitReason, token, gh_authToken, selectedTaskSet,
                        filteredTasks, taskIndex>>
       ELSE /\ gh_authToken' = Trim(Trim(token))
            /\ token' = <<>>
            /\ BeginPreCheck(selectedTaskSet)
    /\ UNCHANGED <<mode, ctxVars, sysVars, snapVars, gh_repos, gh_selectedRepoNames,
                   cursorIndex, selectedTaskIds, selectedItems, planVars,
                   flowVars, animatedContext, animVars, histVars>>

\* Escape: the GitHub task is dropped from the tasks to run
TokenEscape ==
    /\ pc = "tokenPrompt"
    /\ token' = <<>>
    /\ BeginPreCheck(AfterTokenCancel(selectedTaskSet))
    /\ UNCHANGED <<mode, ctxVars, taskVars, cursorIndex, selectedTaskIds,
                   selectedItems, planVars, flowVars, animatedContext,
                   animVars, histVars>>

(***************************************************************************)
(* PreCheck: main, lines 144-184, and the start of the item selector.      *)
(***************************************************************************)
\* results of a capture-output query the runners are run against
QueryOutcomes == IF mode \in RunnerModes THEN {"ok"} ELSE {"ok", "throw"}

RECURSIVE TaskWarnings(_, _)
\* uiWarnings.push(`[${task.name}] ${warning}`)
TaskWarnings(name, warnings) ==
    IF warnings = <<>> THEN <<>>
    ELSE <<[task |-> name, warning |-> Head(warnings)]>>
         \o TaskWarnings(name, Tail(warnings))

\* selectPackagesWithOpenTui: categories.filter(category => category.items.length > 0)
Normalized(categories) == SelectSeq(categories, LAMBDA c : Len(c.items) > 0)

RECURSIVE FlatItemsOf(_)
\* the id `${category.key}::${item}` is the pair of its two parts
FlatItemsOf(categories) ==
    IF categories = <<>> THEN <<>>
    ELSE [i \in 1..Len(Head(categories).items) |->
             [id |-> <<Head(categories).key, Head(categories).items[i]>>,
              categoryKey |-> Head(categories).key,
              value |-> Head(categories).items[i]]]
         \o FlatItemsOf(Tail(categories))

flatItems == FlatItemsOf(Normalized(selectableCategories))

ItemIds(items) == {items[i].id : i \in DOMAIN items}

\* the task whose check or execute is due
CurrentTask == filteredTasks[taskIndex]

CheckCall ==
    /\ pc = "preCheck"
    /\ pc' = "checking"
    /\ calls' = Append(calls, <<CurrentTask, "check">>)
    /\ inflight' = inflight \cup {Len(calls) + 1}
    /\ UNCHANGED <<mode, exitReason, ctxVars, taskVars, selectorVars,
                   selectedTaskSet, filteredTasks, taskIndex, planVars,
                   flowVars, animatedContext, animVars, cmds, reports, runs, failures>>

\* what a list task read: the text of its list file and the names parsed from it
ListInput(file, names) ==
    IF file.exists /\ file.readable
    THEN [read |-> TRUE, text |-> file.text, requested |-> names]
    ELSE [read |-> FALSE, text |-> <<>>, requested |-> <<>>]

NoInput == [read |-> FALSE, text |-> <<>>, requested |-> <<>>]

\* what a check found on the machine: whether the tool it looks for exists
\* (Bun.which), and for GitHub the token it holds and the pages the server has
ToolEnv(hasTool) == [hasTool |-> hasTool, token |-> <<>>, pages |-> <<>>]

\* the GitHub check asks the server only when it has git and a token
GitHubEnv(hasGit, authToken, pages) ==
    [hasTool |-> hasGit, token |-> authToken,
     pages |-> IF hasGit /\ authToken # <<>> THEN pages ELSE <<>>]

\* a check that looks for no tool
NoEnv == ToolEnv(TRUE)

\* the Snap check looks for the snap tool only when its list asks for an app
SnapEnv(requested, hasSnap) == IF requested = <<>> THEN NoEnv ELSE ToolEnv(hasSnap)

\* a history entry of reports
CheckRecord(id, r, input, env) ==
    [task |-> id, threw |-> r.threw, report |-> r.report, read |-> input.read,
     text |-> input.text, requested |-> input.requested, env |-> env]

\* the outer test of line 150 taken for the test of line 156
ReportsAnything(report) == Len(report.toInstall) > 0 \/ Len(report.warnings) > 0

\* main, line 156: the report has something to install
ReportsPendingWork(report) == Len(report.toInstall) > 0

\* a retry of the check that threw
AfterCheckIndexRetry(index, threw) == IF threw THEN index ELSE index + 1

\* the for-of loop of PreCheck: a check that threw is caught and the loop goes on
AfterCheckIndex(index, threw) == index + 1

\* a catch block that shows the error among the warnings of the plan
CheckWarningsWithError(name, threw, report) ==
    IF threw THEN <<[task |-> name, warning |-> Warning("Pre-check failed")]>>
    ELSE TaskWarnings(name, report.warnings)

\* the warnings main pushes to uiWarnings for one task: the catch block of a
\* check that threw only logs
CheckWarnings(name, threw, report) ==
    IF threw THEN <<>> ELSE TaskWarnings(name, report.warnings)

\* the body of the loop after "await task.check(context)", the loop step, and
\* after the last task the entry into PlanSelect or Confirm
AfterCheck(id, r, input, env) ==
    LET name == TaskName(id)
        pending == ~r.threw /\ ReportsPendingWork(r.report)
        categories == IF pending /\ mode = "tui"
                      THEN Append(selectableCategories,
                                  [key |-> name, title |-> name, items |-> r.report.toInstall])
                      ELSE selectableCategories
        work == hasPendingWork \/ pending
    IN  /\ inflight' = inflight \ {Len(calls)}
        /\ cmds' = cmds \o Tagged(r.log, id)
        /\ reports' = Append(reports, CheckRecord(id, r, input, env))
        /\ failures' = IF r.threw THEN failures \cup {<<id, "check">>} ELSE failures
        /\ hasPendingWork' = work
        /\ selectableCategories' = categories
        /\ uiWarnings' = IF mode # "tui" THEN uiWarnings
                         ELSE uiWarnings \o CheckWarnings(name, r.threw, r.report)
        /\ IF taskIndex < Len(filteredTasks)
           THEN /\ taskIndex' = AfterCheckIndex(taskIndex, r.threw)
                /\ pc' = "preCheck"
                /\ UNCHANGED <<selectedItems, cursorIndex, exitReason, selection,
                               planSelectEntered>>
           ELSE /\ taskIndex' = 0
                /\ planSelectEntered' = (work /\ mode = "tui")
                /\ UNCHANGED selection
                /\ IF work /\ mode = "tui"
                   THEN IF Normalized(categories) = <<>>
                        THEN \* the selector returns confirmed = false at once
                             /\ pc' = "exit0"
                             /\ exitReason' = "plan-cancel"
                             /\ UNCHANGED <<selectedItems, cursorIndex>>
                        ELSE /\ pc' = "planSelect"
                             /\ exitReason' = "none"
                             /\ selectedItems' = ItemIds(FlatItemsOf(Normalized(categories)))
                             /\ cursorIndex' = 0
                   ELSE /\ pc' = "confirm"
                        /\ exitReason' = "none"
                        /\ UNCHANGED <<selectedItems, cursorIndex>>
        /\ UNCHANGED <<mode, ctxVars, selectedTaskIds, token,
                       selectedTaskSet, filteredTasks, confirmed,
                       animatedContext, animVars, calls, runs>>

SystemCheckReturn ==
    /\ pc = "checking"
    /\ CurrentTask = "system-packages"
    /\ \E appsFile \in RunnerAppsFiles :
          LET input == ListInput(appsFile, SystemPackageList(appsFile.text))
          IN  \E installed \in RunnerPresentSets(input.requested),
                 queryOut \in QueryOutcomes :
                 LET r == SystemCheck(appsFile, packageManager, installed, queryOut,
                                      sys_toInstall)
                 IN  /\ sys_toInstall' = r.toInstall
                     /\ AfterCheck("system-packages", r, input, NoEnv)
    /\ UNCHANGED <<snapVars, ghVars>>

SnapCheckReturn ==
    /\ pc = "checking"
    /\ CurrentTask = "snap-packages"
    /\ \E snapFile \in RunnerSnapFiles :
          LET input == ListInput(snapFile, SnapNames(getSnapRequests(snapFile.text)))
          IN  \E hasSnap \in BOOLEAN, installed \in RunnerPresentSets(input.requested),
                 queryOut \in QueryOutcomes :
                 LET r == SnapCheck(snapFile, hasSnap, installed, queryOut)
                 IN  /\ snap_toInstall' = r.toInstall
                     /\ snap_needsSnapd' = r.needsSnapd
                     /\ AfterCheck("snap-packages", r, input,
                                   SnapEnv(input.requested, hasSnap))
    /\ UNCHANGED <<sysVars, ghVars>>

GitHubCheckReturn ==
    /\ pc = "checking"
    /\ CurrentTask = "github-repos"
    /\ \E hasGit \in BOOLEAN, pages \in RunnerServers :
          LET r == GitHubCheck(hasGit, gh_authToken, pages)
          IN  /\ gh_repos' = r.repos
              /\ gh_selectedRepoNames' = r.selected
              /\ AfterCheck("github-repos", r, NoInput,
                            GitHubEnv(hasGit, gh_authToken, pages))
    /\ UNCHANGED <<sysVars, snapVars, gh_authToken>>

GnomeCheckReturn ==
    /\ pc = "checking"
    /\ CurrentTask = "gnome-settings"
    /\ \E hasGsettings \in BOOLEAN :
          AfterCheck("gnome-settings", GnomeCheck(hasGsettings), NoInput,
                     ToolEnv(hasGsettings))
    /\ UNCHANGED taskVars

DotfilesCheckReturn ==
    /\ pc = "checking"
    /\ CurrentTask = "dotfiles"
    /\ AfterCheck("dotfiles", DotfilesCheck, NoInput, NoEnv)
    /\ UNCHANGED taskVars

(***************************************************************************)
(* selectPackagesWithOpenTui: onKeyPress, and main up to Confirm.          *)
(***************************************************************************)
RECURSIVE ToSelectionMapFrom(_, _, _)
ToSelectionMapFrom(selected, items, map) ==
    IF items = <<>> THEN map
    ELSE LET item == Head(items)
             key == item.categoryKey
         IN  IF item.id \notin selected
             THEN ToSelectionMapFrom(selected, Tail(items), map)
             ELSE ToSelectionMapFrom(selected, Tail(items),
                     [k \in DOMAIN map \cup {key} |->
                         IF k \in DOMAIN map THEN (IF k = key THEN Append(map[k], item.value)
                                                   ELSE map[k])
                         ELSE <<item.value>>])

\* the mutant of toSelectionMap: every item is returned, selected or not
toSelectionMapAll(selected, items) == ToSelectionMapFrom(ItemIds(items), items, <<>>)

\* toSelectionMap(selectedItems, flatItems)
toSelectionMap(selected, items) == ToSelectionMapFrom(selected, items, <<>>)

\* the mutant of SelectedForTask: a task without a key keeps every item
SelectedForTaskOrAll(map, id) ==
    IF TaskName(id) \in DOMAIN map THEN Range(map[TaskName(id)])
    ELSE Range(SnapNames(getSnapRequests(RunnerSnapText))) \cup Range(RepoNames)

\* selection.selectedByCategory[task.name] ?? []
SelectedForTask(map, id) ==
    IF TaskName(id) \in DOMAIN map THEN Range(map[TaskName(id)]) ELSE {}

RECURSIVE ApplyCalls(_)
\* the applySelection calls of main, lines 197-200, in call order
ApplyCalls(tasks) ==
    IF tasks = <<>> THEN <<>>
    ELSE (IF HasApplySelection(Head(tasks)) THEN <<<<Head(tasks), "applySelection">>>> ELSE <<>>)
         \o ApplyCalls(Tail(tasks))

\* GitHubReposCloneTask.applySelection(selectedItems)
GitHubApplySelection(selectedSet) == selectedSet

PackageSelectMove ==
    /\ pc = "planSelect"
    /\ \E key \in {"up", "down"} :
          cursorIndex' =
             IF key = "up"
             THEN (IF cursorIndex <= 0 THEN Len(flatItems) - 1 ELSE cursorIndex - 1)
             ELSE (IF cursorIndex >= Len(flatItems) - 1 THEN 0 ELSE cursorIndex + 1)
    /\ UNCHANGED <<mode, pc, exitReason, ctxVars, taskVars, selectedTaskIds,
                   token, selectedItems, selectedTaskSet, filteredTasks, taskIndex,
                   planVars, flowVars, animatedContext, animVars, histVars>>

PackageSelectToggle ==
    /\ pc = "planSelect"
    /\ LET current == flatItems[cursorIndex + 1]
       IN  selectedItems' = IF current.id \in selectedItems
                            THEN selectedItems \ {current.id}
                            ELSE selectedItems \cup {current.id}
    /\ UNCHANGED <<mode, pc, exitReason, ctxVars, taskVars, cursorIndex,
                   selectedTaskIds, token, selectedTaskSet, filteredTasks, taskIndex,
                   planVars, flowVars, animatedContext, animVars, histVars>>

\* onKeyPress, key "a": selectedItems.size === flatItems.length decides
toggleAllItems(selected, items) ==
    IF Cardinality(selected) = Len(items) THEN {} ELSE selected \cup ItemIds(items)

PackageSelectToggleAll ==
    /\ pc = "planSelect"
    /\ selectedItems' = toggleAllItems(selectedItems, flatItems)
    /\ UNCHANGED <<mode, pc, exitReason, ctxVars, taskVars, cursorIndex,
                   selectedTaskIds, token, selectedTaskSet, filteredTasks, taskIndex,
                   planVars, flowVars, animatedContext, animVars, histVars>>

\* Enter: the selector returns the selection map, and main pushes the approved
\* subset to every task that implements applySelection
PackageSelectEnter ==
    /\ pc = "planSelect"
    /\ LET map == toSelectionMap(selectedItems, flatItems)
           snap == SnapApplySelection(snap_toInstall, snap_needsSnapd,
                                      SelectedForTask(map, "snap-packages"))
       IN  /\ selection' = [confirmed |-> TRUE, selectedByCategory |-> map]
           /\ IF "snap-packages" \in Range(filteredTasks)
              THEN /\ snap_toInstall' = snap.toInstall
                   /\ snap_needsSnapd' = snap.needsSnapd
              ELSE UNCHANGED snapVars
           /\ IF "github-repos" \in Range(filteredTasks)
              THEN gh_selectedRepoNames' =
                      GitHubApplySelection(SelectedForTask(map, "github-repos"))
              ELSE UNCHANGED gh_selectedRepoNames
    /\ calls' = calls \o ApplyCalls(filteredTasks)
    /\ selectedItems' = {}
    /\ cursorIndex' = 0
    /\ pc' = "confirm"
    /\ UNCHANGED <<mode, exitReason, ctxVars, sysVars, gh_authToken, gh_repos,
                   selectedTaskIds, token, selectedTaskSet, filteredTasks, taskIndex,
                   planVars, confirmed, planSelectEntered, animatedContext, animVars,
                   inflight, cmds, reports, runs, failures>>

\* Escape: the selector returns confirmed = false and main exits with status 0
PackageSelectEscape ==
    /\ pc = "planSelect"
    /\ selectedItems' = {}
    /\ cursorIndex' = 0
    /\ pc' = "exit0"
    /\ exitReason' = "plan-cancel"
    /\ selection' = NoSelection
    /\ UNCHANGED <<mode, ctxVars, taskVars, selectedTaskIds, token,
                   selectedTaskSet, filteredTasks, taskIndex, planVars,
                   confirmed, planSelectEntered, animatedContext, animVars, histVars>>

(***************************************************************************)
(* Confirm: context.askConfirmation, and the start of the execution.       *)
(***************************************************************************)
RECURSIVE StepNames(_)
StepNames(tasks) ==
    IF tasks = <<>> THEN <<>> ELSE <<TaskName(Head(tasks))>> \o StepNames(Tail(tasks))

\* runAnimatedInstallation up to the execution loop, for a non-empty step list
BeginAnimation(stepNames) ==
    /\ steps' = stepNames
    /\ states' = [i \in 1..Len(stepNames) |-> "pending"]
    /\ results' = <<>>
    /\ spinnerIndex' = 0
    /\ intervalActive' = TRUE
    /\ rendererLive' = TRUE

\* a gate that lets every answer through
ConfirmedToRunAlways(answer) == TRUE

\* main, lines 221-224: only the answer yes lets main go on
ConfirmedToRun(answer) == answer

\* the mutant of AnimatedContextOf: the copy is taken before Init's detection
AnimatedContextBlank(pm, sudo) == [packageManager |-> "", isSudo |-> FALSE]

\* main, lines 228-237: animatedContext copies the two fields of the context
AnimatedContextOf(pm, sudo) == [packageManager |-> pm, isSudo |-> sudo]

AskConfirmation ==
    /\ pc = "confirm"
    /\ \E answer \in BOOLEAN :
          /\ confirmed' = answer
          /\ IF ~ConfirmedToRun(answer)
             THEN /\ pc' = "exit0"
                  /\ exitReason' = "declined"
                  /\ UNCHANGED <<taskIndex, animatedContext, animVars>>
             ELSE /\ pc' = "install"
                  /\ exitReason' = "none"
                  /\ taskIndex' = 1
                  /\ IF mode = "tui"
                     THEN /\ animatedContext' = AnimatedContextOf(packageManager, isSudo)
                          /\ BeginAnimation(StepNames(filteredTasks))
                     ELSE UNCHANGED <<animatedContext, animVars>>
    /\ UNCHANGED <<mode, ctxVars, taskVars, selectorVars, selectedTaskSet,
                   filteredTasks, planVars, selection, planSelectEntered, histVars>>

(***************************************************************************)
(* Execute: the loop of runAnimatedInstallation (and of the plain runner). *)
(***************************************************************************)
\* results of the commands of one execute
ExecOutcomeSeqs(n) ==
    IF mode \in RunnerModes THEN RunnerOutcomeSeqs(n) ELSE [1..n -> Outcomes]

StepCount == IF mode = "anim" THEN Len(steps) ELSE Len(filteredTasks)

\* the context execute is given
ExecPackageManager == IF mode = "tui" THEN animatedContext.packageManager ELSE packageManager

\* states[index] = "running" and the call of steps[index].run()
StepStart ==
    /\ pc = "install"
    /\ taskIndex <= StepCount
    /\ pc' = "running"
    /\ IF mode = "plain" THEN UNCHANGED states
       ELSE states' = [states EXCEPT ![taskIndex] = "running"]
    /\ LET callee == IF mode = "anim" THEN <<steps[taskIndex], "run">>
                     ELSE <<CurrentTask, "execute">>
       IN  /\ calls' = Append(calls, callee)
           /\ inflight' = inflight \cup {Len(calls) + 1}
    /\ UNCHANGED <<mode, exitReason, ctxVars, taskVars, selectorVars,
                   selectedTaskSet, filteredTasks, taskIndex, planVars, flowVars,
                   animatedContext, steps, results, spinnerIndex, intervalActive,
                   rendererLive, cmds, reports, runs, failures>>

\* a catch block that forgets to mark the step
SettledStateStuck(threw) == IF threw THEN "running" ELSE "completed"

\* states[index] after the run settled
SettledState(threw) == IF threw THEN "failed" ELSE "completed"

\* a catch block that drops the error message
StepResultNoError(name, threw, message) ==
    IF threw THEN [name |-> name, status |-> "failed", error |-> ""]
    ELSE [name |-> name, status |-> "completed"]

\* the InstallationStepResult pushed for a step
StepResult(name, threw, message) ==
    IF threw THEN [name |-> name, status |-> "failed", error |-> message]
    ELSE [name |-> name, status |-> "completed"]

\* a loop without the inner try/catch: the first failure ends it
AfterStepIndexAbort(index, threw) == IF threw THEN StepCount + 1 ELSE index + 1

\* the loop of Execute: a run that threw is caught and the loop goes on
AfterStepIndex(index, threw) == index + 1

\* the try/catch around "await steps[index].run()" and the loop step
RecordStep(threw, message) ==
    /\ pc' = "install"
    /\ runs' = Append(runs, [index |-> taskIndex, threw |-> threw,
                              message |-> IF threw THEN message ELSE ""])
    /\ taskIndex' = AfterStepIndex(taskIndex, threw)
    /\ IF mode = "plain" THEN UNCHANGED <<states, results>>
       ELSE /\ states' = [states EXCEPT ![taskIndex] = SettledState(threw)]
            /\ results' = Append(results, StepResult(steps[taskIndex], threw, message))

AfterExecute(id, r) ==
    /\ inflight' = inflight \ {Len(calls)}
    /\ cmds' = cmds \o Tagged(r.log, id)
    /\ failures' = IF r.threw THEN failures \cup {<<id, "execute">>} ELSE failures
    /\ RecordStep(r.threw, "spawn failed")
    /\ UNCHANGED <<mode, exitReason, ctxVars, taskVars, selectorVars,
                   selectedTaskSet, filteredTasks, planVars, flowVars,
                   animatedContext, steps, spinnerIndex, intervalActive, rendererLive,
                   calls, reports>>

SystemExecuteReturn ==
    /\ pc = "running"
    /\ mode \in RunnerModes
    /\ CurrentTask = "system-packages"
    /\ \E outs \in ExecOutcomeSeqs(2 + Len(sys_toInstall)) :
          AfterExecute("system-packages",
                       SystemExecute(ExecPackageManager, sys_toInstall, outs))

SnapExecuteReturn ==
    /\ pc = "running"
    /\ mode \in RunnerModes
    /\ CurrentTask = "snap-packages"
    /\ \E hasSystemctl \in BOOLEAN, outs \in ExecOutcomeSeqs(2 + Len(snap_toInstall)) :
          AfterExecute("snap-packages",
                       SnapExecute(ExecPackageManager, snap_toInstall, snap_needsSnapd,
                                   hasSystemctl, outs))

GitHubExecuteReturn ==
    /\ pc = "running"
    /\ mode \in RunnerModes
    /\ CurrentTask = "github-repos"
    /\ \E cloned \in RunnerPresentSets(gh_repos), outs \in ExecOutcomeSeqs(1 + 2 * Len(gh_repos)) :
          AfterExecute("github-repos",
                       GitHubExecute(gh_authToken, gh_repos, gh_selectedRepoNames,
                                     cloned, outs))

GnomeExecuteReturn ==
    /\ pc = "running"
    /\ mode \in RunnerModes
    /\ CurrentTask = "gnome-settings"
    /\ \E hasGsettings \in BOOLEAN, outs \in ExecOutcomeSeqs(1) :
          AfterExecute("gnome-settings", GnomeExecute(hasGsettings, outs))

DotfilesExecuteReturn ==
    /\ pc = "running"
    /\ mode \in RunnerModes
    /\ CurrentTask = "dotfiles"
    /\ AfterExecute("dotfiles", DotfilesExecute)

\* the setInterval callback: only the spinner frame advances
SpinnerTick ==
    /\ intervalActive
    /\ mode \in RunnerModes => spinnerIndex < MaxRunnerTicks
    /\ spinnerIndex' = (spinnerIndex + 1) % SPINNER_FRAMES_LENGTH
    /\ UNCHANGED <<mode, pc, exitReason, ctxVars, taskVars, selectorVars,
                   selectedTaskSet, filteredTasks, taskIndex, planVars, flowVars,
                   animatedContext, steps, states, results, intervalActive, rendererLive,
                   histVars>>

\* a finally block that leaves the timer alone
clearIntervalSkipped(active) == active

\* clearInterval(interval) in the finally block
clearInterval(active) == FALSE

\* after the last step: the finally block of runAnimatedInstallation and its
\* return (the plain runner just ends)
FinishInstall ==
    /\ pc = "install"
    /\ taskIndex > StepCount
    /\ intervalActive' = clearInterval(intervalActive)
    /\ rendererLive' = FALSE
    /\ pc' = CASE mode = "tui" -> "summary"
               [] mode = "plain" -> "done"
               [] OTHER -> "returned"
    /\ UNCHANGED <<mode, exitReason, ctxVars, taskVars, selectorVars,
                   selectedTaskSet, filteredTasks, taskIndex, planVars, flowVars,
                   animatedContext, steps, states, results, spinnerIndex, histVars>>

\* showCompletionSummary and the console summary
ShowSummary ==
    /\ pc = "summary"
    /\ pc' = "done"
    /\ UNCHANGED <<mode, exitReason, ctxVars, taskVars, selectorVars,
                   selectedTaskSet, filteredTasks, taskIndex, planVars, flowVars,
                   animatedContext, animVars, histVars>>

Next ==
    \/ Initialize
    \/ TaskSelectMove \/ TaskSelectToggle \/ TaskSelectToggleAll
    \/ TaskSelectEnter \/ TaskSelectEscape
    \/ TokenType \/ TokenBackspace \/ TokenEnter \/ TokenEscape
    \/ CheckCall
    \/ SystemCheckReturn \/ SnapCheckReturn \/ GitHubCheckReturn
    \/ GnomeCheckReturn \/ DotfilesCheckReturn
    \/ PackageSelectMove \/ PackageSelectToggle \/ PackageSelectToggleAll
    \/ PackageSelectEnter \/ PackageSelectEscape
    \/ AskConfirmation
    \/ StepStart
    \/ SystemExecuteReturn \/ SnapExecuteReturn \/ GitHubExecuteReturn
    \/ GnomeExecuteReturn \/ DotfilesExecuteReturn
    \/ SpinnerTick
    \/ FinishInstall
    \/ ShowSummary

Spec == Init /\ [][Next]_vars

(***************************************************************************)
(* runAnimatedInstallation on its own: any list of steps, each of whose    *)
(* run resolves or throws.                                                 *)
(***************************************************************************)
\* most steps handed to runAnimatedInstallation
MaxSteps == 3

StepNameSet == {"a", "b"}
ErrorMessages == {"e1", "e2"}

InitAnim == \E stepList \in SeqsUpTo(StepNameSet, MaxSteps) : Blank("anim", "animCall", "", stepList)

\* the call: an empty step list returns [] at once
CallRunAnimatedInstallation ==
    /\ pc = "animCall"
    /\ IF steps = <<>>
       THEN /\ pc' = "returned"
            /\ results' = <<>>
            /\ UNCHANGED <<taskIndex, steps, states, spinnerIndex, intervalActive, rendererLive>>
       ELSE /\ pc' = "install"
            /\ taskIndex' = 1
            /\ BeginAnimation(steps)
    /\ UNCHANGED <<mode, exitReason, ctxVars, taskVars, selectorVars, selectedTaskSet,
                   filteredTasks, planVars, flowVars, animatedContext, histVars>>

\* the run of the current step settles
AbstractStepReturn ==
    /\ pc = "running"
    /\ mode = "anim"
    /\ \E threw \in BOOLEAN, message \in ErrorMessages :
          /\ threw \/ message = "e1"
          /\ RecordStep(threw, message)
    /\ inflight' = inflight \ {Len(calls)}
    /\ UNCHANGED <<mode, exitReason, ctxVars, taskVars, selectorVars, selectedTaskSet,
                   filteredTasks, planVars, flowVars, animatedContext, steps,
                   spinnerIndex, intervalActive, rendererLive, calls, cmds, reports,
                   failures>>

NextAnim ==
    \/ CallRunAnimatedInstallation
    \/ StepStart
    \/ AbstractStepReturn
    \/ SpinnerTick
    \/ FinishInstall

SpecAnim == InitAnim /\ [][NextAnim]_vars

(***************************************************************************)
(* The check of the two list tasks on its own: any list file, any          *)
(* installed set.                                                          *)
(***************************************************************************)
ListChars == {"g", " ", "#"}

\* lines spelled character by character, and lines around a "--classic" token
RichLines ==
    SeqsUpTo(ListChars, MaxLineLen)
    \cup {p \o ClassicFlag \o q : p \in SeqsUpTo(ListChars, MaxAffix),
                                  q \in SeqsUpTo(ListChars, MaxAffix)}

\* the lines that may follow the first line of a list file
PlainLines == {<<>>, <<"v">>, <<"g">>, <<"#", "c">>}

\* a list file of one line, or of one line followed by a plain line
HarnessTexts ==
    RichLines \cup {Join(<<first, second>>, "\n") : first \in RichLines, second \in PlainLines}

HarnessFiles == {MissingFile, UnreadableFile} \cup {TextFile(t) : t \in HarnessTexts}

\* a name no list of the harness asks for
OtherName == <<"z">>

InitLists == \E pm \in {"apt", "pacman"} : Blank("lists", "harness", pm, <<>>)

HarnessSystemCheck ==
    /\ pc = "harness"
    /\ pc' = "checked"
    /\ \E appsFile \in HarnessFiles :
          LET input == ListInput(appsFile, SystemPackageList(appsFile.text))
          IN  \E installed \in SUBSET (Range(input.requested) \cup {OtherName}),
                 queryOut \in QueryOutcomes :
                 LET r == SystemCheck(appsFile, packageManager, installed, queryOut,
                                      sys_toInstall)
                 IN  /\ sys_toInstall' = r.toInstall
                     /\ cmds' = cmds \o Tagged(r.log, "system-packages")
                     /\ reports' = Append(reports, CheckRecord("system-packages", r, input, NoEnv))
                     /\ failures' = IF r.threw THEN failures \cup {<<"system-packages", "check">>}
                                    ELSE failures
    /\ calls' = Append(calls, <<"system-packages", "check">>)
    /\ UNCHANGED <<mode, exitReason, ctxVars, snapVars, ghVars, selectorVars,
                   selectedTaskSet, filteredTasks, taskIndex, planVars, flowVars,
                   animatedContext, animVars, inflight, runs>>

HarnessSnapCheck ==
    /\ pc = "harness"
    /\ pc' = "checked"
    /\ \E snapFile \in HarnessFiles :
          LET input == ListInput(snapFile, SnapNames(getSnapRequests(snapFile.text)))
          IN  \E hasSnap \in BOOLEAN,
                 installed \in SUBSET (Range(input.requested) \cup {OtherName}),
                 queryOut \in QueryOutcomes :
                 LET r == SnapCheck(snapFile, hasSnap, installed, queryOut)
                 IN  /\ snap_toInstall' = r.toInstall
                     /\ snap_needsSnapd' = r.needsSnapd
                     /\ cmds' = cmds \o Tagged(r.log, "snap-packages")
                     /\ reports' = Append(reports, CheckRecord("snap-packages", r, input,
                                                          SnapEnv(input.requested, hasSnap)))
                     /\ failures' = IF r.threw THEN failures \cup {<<"snap-packages", "check">>}
                                    ELSE failures
    /\ calls' = Append(calls, <<"snap-packages", "check">>)
    /\ UNCHANGED <<mode, exitReason, ctxVars, sysVars, ghVars, selectorVars,
                   selectedTaskSet, filteredTasks, taskIndex, planVars, flowVars,
                   animatedContext, animVars, inflight, runs>>

NextLists == HarnessSystemCheck \/ HarnessSnapCheck

SpecLists == InitLists /\ [][NextLists]_vars

(***************************************************************************)
(* One task on its own: check, applySelection and execute called in any    *)
(* order and any number of times, each call running to its end before the  *)
(* next.  steps holds the task under test; selectedItems holds, for every   *)
(* applySelection call made, the set of names it was given.                *)
(***************************************************************************)
\* most calls made on the task
MaxDriverCalls == 3

DriverTask == steps[1]

\* the set of names call number i, an applySelection, was given
AppliedIn(history, i) == (CHOOSE a \in history : a.call = i).names

Applied(i) == AppliedIn(selectedItems, i)

DriverAppsText == <<"g", "\n", "v">>
DriverSnapText == <<"s", "\n", "w", " ">> \o ClassicFlag

DriverAppsFiles == {MissingFile, TextFile(DriverAppsText)}
DriverSnapFiles == {MissingFile, TextFile(DriverSnapText)}

\* the installed sets: nothing, or the first requested name
DriverPresentSets(names) == {{}} \cup {{names[1]} : i \in {1} \cap DOMAIN names}

\* the account the driver's server lists: two repositories
DriverRepoNames == <<<<"r", Digits[1]>>, <<"r", Digits[2]>>>>

\* the GitHub server: an empty account, both repositories on one page, an
\* authentication failure, and a failure after the first page
DriverServers ==
    {<<>>, <<RepoPage(DriverRepoNames)>>, <<ErrorPage(401)>>,
     <<RepoPage(<<DriverRepoNames[1]>>), ErrorPage(500)>>}

\* the repositories whose target directory already holds a .git: none, the
\* first fetched, or all
DriverClonedSets(repos) == DriverPresentSets(repos) \cup {Range(repos)}

\* results of the commands of one execute: every command succeeds, one of
\* them exits non-zero or cannot be spawned, or all exit non-zero from one on
DriverOutcomeSeqs(n) ==
    {[i \in 1..n |-> IF i = k THEN o ELSE "ok"] : k \in 0..n, o \in {"fail", "throw"}}
    \cup {[i \in 1..n |-> IF i >= k THEN "fail" ELSE "ok"] : k \in 1..n}

InitTasks == \E t \in TaskIds : Blank("tasks", "driver", "apt", <<t>>)

\* what every call of the driver records
DriverReturn(op, r) ==
    /\ mode = "tasks"
    /\ Len(calls) < MaxDriverCalls
    /\ calls' = Append(calls, <<DriverTask, op>>)
    /\ cmds' = cmds \o Tagged(r.log, DriverTask)
    /\ failures' = IF r.threw THEN failures \cup {<<DriverTask, op>>} ELSE failures
    /\ UNCHANGED <<mode, pc, exitReason, ctxVars, cursorIndex, selectedTaskIds, token,
                   selectedTaskSet, filteredTasks, taskIndex, planVars, flowVars,
                   animatedContext, steps, states, spinnerIndex, intervalActive,
                   rendererLive, inflight, runs>>

DriverCheckReturn(r, input, env) ==
    /\ DriverReturn("check", r)
    /\ reports' = Append(reports, CheckRecord(DriverTask, r, input, env))
    /\ UNCHANGED <<selectedItems, results>>

\* execute is called as the run of an installation step: the result pushed
\* for the step is the one runAnimatedInstallation pushes
DriverExecuteReturn(r) ==
    /\ DriverReturn("execute", r)
    /\ results' = Append(results, StepResult(TaskName(DriverTask), r.threw, "spawn failed"))
    /\ UNCHANGED <<taskVars, reports, selectedItems>>

\* applySelection returns nothing and issues no command
DriverApplyReturn(selectedSet) ==
    /\ DriverReturn("applySelection", [log |-> <<>>, threw |-> FALSE])
    /\ selectedItems' = selectedItems \cup {[call |-> Len(calls) + 1, names |-> selectedSet]}
    /\ UNCHANGED <<reports, results>>

\* setAuthToken(token), called before any other method
DriverSetAuthToken ==
    /\ mode \in {"tasks", "fetch"}
    /\ DriverTask = "github-repos"
    /\ calls = <<>>
    /\ gh_authToken = <<>>
    /\ gh_authToken' = Trim(RunnerTokenText)
    /\ UNCHANGED <<mode, pc, exitReason, ctxVars, sysVars, snapVars, gh_repos,
                   gh_selectedRepoNames, selectorVars, selectedTaskSet, filteredTasks,
                   taskIndex, planVars, flowVars, animatedContext, animVars, histVars>>

DriverSystemCheck ==
    /\ DriverTask = "system-packages"
    /\ \E appsFile \in DriverAppsFiles :
          LET input == ListInput(appsFile, SystemPackageList(appsFile.text))
          IN  \E installed \in DriverPresentSets(input.requested),
                 queryOut \in QueryOutcomes :
                 LET r == SystemCheck(appsFile, packageManager, installed, queryOut,
                                      sys_toInstall)
                 IN  /\ sys_toInstall' = r.toInstall
                     /\ DriverCheckReturn(r, input, NoEnv)
    /\ UNCHANGED <<snapVars, ghVars>>

DriverSnapCheck ==
    /\ DriverTask = "snap-packages"
    /\ \E snapFile \in DriverSnapFiles :
          LET input == ListInput(snapFile, SnapNames(getSnapRequests(snapFile.text)))
          IN  \E hasSnap \in BOOLEAN, installed \in DriverPresentSets(input.requested),
                 queryOut \in QueryOutcomes :
                 LET r == SnapCheck(snapFile, hasSnap, installed, queryOut)
                 IN  /\ snap_toInstall' = r.toInstall
                     /\ snap_needsSnapd' = r.needsSnapd
                     /\ DriverCheckReturn(r, input, SnapEnv(input.requested, hasSnap))
    /\ UNCHANGED <<sysVars, ghVars>>

DriverGitHubCheck ==
    /\ DriverTask = "github-repos"
    /\ \E hasGit \in BOOLEAN, pages \in DriverServers :
          LET r == GitHubCheck(hasGit, gh_authToken, pages)
          IN  /\ gh_repos' = r.repos
              /\ gh_selectedRepoNames' = r.selected
              /\ DriverCheckReturn(r, NoInput, GitHubEnv(hasGit, gh_authToken, pages))
    /\ UNCHANGED <<sysVars, snapVars, gh_authToken>>

DriverGnomeCheck ==
    /\ DriverTask = "gnome-settings"
    /\ \E hasGsettings \in BOOLEAN :
          DriverCheckReturn(GnomeCheck(hasGsettings), NoInput, ToolEnv(hasGsettings))
    /\ UNCHANGED taskVars

DriverDotfilesCheck ==
    /\ DriverTask = "dotfiles"
    /\ DriverCheckReturn(DotfilesCheck, NoInput, NoEnv)
    /\ UNCHANGED taskVars

DriverSnapApply ==
    /\ DriverTask = "snap-packages"
    /\ \E selectedSet \in SUBSET Range(SnapNames(getSnapRequests(DriverSnapText))) :
          LET snap == SnapApplySelection(snap_toInstall, snap_needsSnapd, selectedSet)
          IN  /\ snap_toInstall' = snap.toInstall
              /\ snap_needsSnapd' = snap.needsSnapd
              /\ DriverApplyReturn(selectedSet)
    /\ UNCHANGED <<sysVars, ghVars>>

DriverGitHubApply ==
    /\ DriverTask = "github-repos"
    /\ \E selectedSet \in SUBSET Range(DriverRepoNames) :
          /\ gh_selectedRepoNames' = GitHubApplySelection(selectedSet)
          /\ DriverApplyReturn(selectedSet)
    /\ UNCHANGED <<sysVars, snapVars, gh_authToken, gh_repos>>

DriverSystemExecute ==
    /\ DriverTask = "system-packages"
    /\ \E outs \in DriverOutcomeSeqs(2 + Len(sys_toInstall)) :
          DriverExecuteReturn(SystemExecute(packageManager, sys_toInstall, outs))

DriverSnapExecute ==
    /\ DriverTask = "snap-packages"
    /\ \E hasSystemctl \in BOOLEAN, outs \in DriverOutcomeSeqs(2 + Len(snap_toInstall)) :
          DriverExecuteReturn(SnapExecute(packageManager, snap_toInstall, snap_needsSnapd,
                                          hasSystemctl, outs))

DriverGitHubExecute ==
    /\ DriverTask = "github-repos"
    /\ \E cloned \in DriverClonedSets(gh_repos),
          outs \in DriverOutcomeSeqs(1 + 2 * Len(gh_repos)) :
          DriverExecuteReturn(GitHubExecute(gh_authToken, gh_repos, gh_selectedRepoNames,
                                            cloned, outs))

DriverGnomeExecute ==
    /\ DriverTask = "gnome-settings"
    /\ \E hasGsettings \in BOOLEAN, outs \in DriverOutcomeSeqs(1) :
          DriverExecuteReturn(GnomeExecute(hasGsettings, outs))

DriverDotfilesExecute ==
    /\ DriverTask = "dotfiles"
    /\ DriverExecuteReturn(DotfilesExecute)

NextTasks ==
    \/ DriverSetAuthToken
    \/ DriverSystemCheck
    \/ DriverSnapCheck
    \/ DriverGitHubCheck
    \/ DriverGnomeCheck
    \/ DriverDotfilesCheck
    \/ DriverSnapApply
    \/ DriverGitHubApply
    \/ DriverSystemExecute
    \/ DriverSnapExecute
    \/ DriverGitHubExecute
    \/ DriverGnomeExecute
    \/ DriverDotfilesExecute

SpecTasks == InitTasks /\ [][NextTasks]_vars

(***************************************************************************)
(* The check of the GitHub task on its own: any server of a few pages, and *)
(* the account of 237 repositories served in pages of 100.                 *)
(***************************************************************************)
\* most pages a server of the harness holds
MaxPages == 3

PageKinds == {"repos", "empty", "nonArray", "unauthorized", "error"}

\* page number page of a server, of the given kind
PageOfKind(kind, page) ==
    IF kind = "repos" THEN RepoPage(<<<<"p", Digits[page]>>>>)
    ELSE IF kind = "empty" THEN RepoPage(<<>>)
    ELSE IF kind = "nonArray" THEN NonArrayPage
    ELSE IF kind = "unauthorized" THEN ErrorPage(401)
    ELSE ErrorPage(500)

DigitChars == <<"0", "1", "2", "3", "4", "5", "6", "7", "8", "9">>

\* the name of repository number k of the large account
ExampleRepoName(k) ==
    <<"x", DigitChars[(k \div 100) + 1], DigitChars[((k \div 10) % 10) + 1],
      DigitChars[(k % 10) + 1]>>

ExamplePageSizes == <<100, 100, 37, 0>>

RECURSIVE PagesOfSizes(_, _)
\* pages of the given sizes, the repositories numbered from offset + 1 on
PagesOfSizes(sizes, offset) ==
    IF sizes = <<>> THEN <<>>
    ELSE <<RepoPage([i \in 1..Head(sizes) |-> ExampleRepoName(offset + i)])>>
         \o PagesOfSizes(Tail(sizes), offset + Head(sizes))

ExampleServer == PagesOfSizes(ExamplePageSizes, 0)

FetchServers ==
    UNION {{[i \in 1..n |-> PageOfKind(kinds[i], i)] : kinds \in [1..n -> PageKinds]} :
           n \in 0..MaxPages}
    \cup {ExampleServer}

InitFetch == Blank("fetch", "harness", "apt", <<"github-repos">>)

HarnessGitHubCheck ==
    /\ mode = "fetch"
    /\ pc = "harness"
    /\ pc' = "checked"
    /\ \E hasGit \in BOOLEAN, pages \in FetchServers :
          LET r == GitHubCheck(hasGit, gh_authToken, pages)
          IN  /\ gh_repos' = r.repos
              /\ gh_selectedRepoNames' = r.selected
              /\ cmds' = cmds \o Tagged(r.log, "github-repos")
              /\ reports' = Append(reports, CheckRecord("github-repos", r, NoInput,
                                                        GitHubEnv(hasGit, gh_authToken, pages)))
              /\ failures' = IF r.threw THEN failures \cup {<<"github-repos", "check">>}
                             ELSE failures
    /\ calls' = Append(calls, <<"github-repos", "check">>)
    /\ UNCHANGED <<mode, exitReason, ctxVars, sysVars, snapVars, gh_authToken, selectorVars,
                   selectedTaskSet, filteredTasks, taskIndex, planVars, flowVars,
                   animatedContext, animVars, inflight, runs>>

NextFetch == DriverSetAuthToken \/ HarnessGitHubCheck

SpecFetch == InitFetch /\ [][NextFetch]_vars

(***************************************************************************)
(* The item selector on its own: main with only the System task selected,  *)
(* from initialize on, with any short package list and nothing installed.  *)
(***************************************************************************)
MaxListLines == 3

SelectorLines == {<<"g">>, <<"v">>}

\* package lists of one to MaxListLines lines, a name possibly repeated
SelectorTexts ==
    {Join(lines, "\n") : lines \in SeqsUpTo(SelectorLines, MaxListLines) \ {<<>>}}

InitSelector == Blank("selector", "context", "", <<>>)

\* context.initialize on a machine with apt, its commands recorded
HarnessInitialize ==
    /\ pc = "context"
    /\ \E idOut \in {"ok", "throw"}, isRoot \in BOOLEAN, sudoOut \in Outcomes :
          LET pm == IF idOut = "throw" THEN "" ELSE detectPackageManager({"apt"})
          IN  /\ isSudo' = SudoAfterInitialize(idOut, isRoot, sudoOut)
              /\ packageManager' = pm
              /\ cmds' = cmds \o Tagged(InitializeCmds(idOut, isRoot, sudoOut), "context")
              /\ IF InitializeThrows(idOut, pm)
                 THEN pc' = "exit1" /\ exitReason' = "init-failed"
                 ELSE pc' = "harness" /\ exitReason' = "none"
    /\ UNCHANGED <<mode, taskVars, selectorVars, selectedTaskSet, filteredTasks,
                   taskIndex, planVars, flowVars, animatedContext, animVars,
                   calls, inflight, reports, runs, failures>>

\* PreCheck of the one task, and selectPackagesWithOpenTui up to the first key
HarnessOpenSelector ==
    /\ pc = "harness"
    /\ \E text \in SelectorTexts :
          LET appsFile == TextFile(text)
              input == ListInput(appsFile, SystemPackageList(text))
              r == SystemCheck(appsFile, packageManager, {}, "ok", sys_toInstall)
              name == TaskName("system-packages")
              categories == <<[key |-> name, title |-> name, items |-> r.report.toInstall]>>
          IN  /\ sys_toInstall' = r.toInstall
              /\ cmds' = cmds \o Tagged(r.log, "system-packages")
              /\ reports' = Append(reports, CheckRecord("system-packages", r, input, NoEnv))
              /\ selectableCategories' = categories
              /\ uiWarnings' = uiWarnings \o CheckWarnings(name, r.threw, r.report)
              /\ selectedItems' = ItemIds(FlatItemsOf(Normalized(categories)))
    /\ calls' = Append(calls, <<"system-packages", "check">>)
    /\ filteredTasks' = <<"system-packages">>
    /\ selectedTaskSet' = {"system-packages"}
    /\ hasPendingWork' = TRUE
    /\ planSelectEntered' = TRUE
    /\ cursorIndex' = 0
    /\ pc' = "planSelect"
    /\ UNCHANGED <<mode, exitReason, ctxVars, snapVars, ghVars, selectedTaskIds, token,
                   taskIndex, selection, confirmed, animatedContext, animVars,
                   inflight, runs, failures>>

NextSelector ==
    \/ HarnessInitialize
    \/ HarnessOpenSelector
    \/ PackageSelectMove \/ PackageSelectToggle \/ PackageSelectToggleAll
    \/ PackageSelectEnter \/ PackageSelectEscape

SpecSelector == InitSelector /\ [][NextSelector]_vars

(***************************************************************************)
(* Properties.                                                             *)
(***************************************************************************)
\* the calls made so far, as a set
Called == Range(calls)

ExecuteCalled == \E i \in DOMAIN calls : calls[i][2] = "execute"
ApplySelectionCalled == \E i \in DOMAIN calls : calls[i][2] = "applySelection"

\* the tasks whose toInstall lists items the user can deselect
ItemTasks == {"system-packages", "snap-packages", "github-repos"}

\* the operations that install or clone the items named by their arguments
ItemOps == {"install", "snap-install", "clone"}

\* the items the execute of task t acted on
ActedOn(t) ==
    UNION {Range(cmds[i].args) : i \in {j \in DOMAIN cmds : cmds[j].task = t /\ cmds[j].op \in ItemOps}}

\* the items the user approved for task t
Approved(t) == SelectedForTask(selection.selectedByCategory, t)

\* a check of task t returned a non-empty toInstall
ReportedPending(t) ==
    \E i \in DOMAIN reports :
        reports[i].task = t /\ ~reports[i].threw /\ reports[i].report.toInstall # <<>>

\* C1: in a run that passed the item selection, for every selected task that
\* reported pending items (system packages, snaps and repositories alike) the
\* items its execute acts on are among the items the user approved: a
\* deselected item is never installed or cloned.
C1_ExecuteWithinApproved ==
    selection.confirmed =>
        \A t \in ItemTasks \cap Range(filteredTasks) :
            ReportedPending(t) => ActedOn(t) \subseteq Approved(t)

\* C2: no execute is invoked unless the final confirmation returned yes; while
\* it has not (and after the user declined) there is no execute call and no
\* state-changing command.
C2_NoExecuteWithoutYes ==
    ~confirmed =>
        /\ ~ExecuteCalled
        /\ \A i \in DOMAIN cmds : cmds[i].op \notin StateChangingOps
        /\ pc \notin {"install", "running", "summary", "done"}

\* C2 witness: the user declined after the checks found work, and the run ended
C2_Declined ==
    /\ pc = "exit0"
    /\ exitReason = "declined"
    /\ hasPendingWork
    /\ cmds # <<>>

\* main of the interactive runner is past the PreCheck loop
PastPreCheck ==
    /\ mode = "tui"
    /\ \/ pc \in {"planSelect", "confirm", "install", "running", "summary", "done"}
       \/ pc = "exit0" /\ exitReason \in {"plan-cancel", "declined"}

\* the user cancelled the item selector
PlanCancelled == planSelectEntered /\ ~selection.confirmed /\ pc # "planSelect"

\* C3: the item selector is entered if and only if at least one check that
\* returned gave a non-empty toInstall; when the user cancels it the run has
\* ended, and no applySelection and no execute is ever called.
C3_PlanSelectIffPending ==
    /\ PastPreCheck =>
          (planSelectEntered <=> \E t \in Range(filteredTasks) : ReportedPending(t))
    /\ pc = "planSelect" => planSelectEntered
    /\ PlanCancelled =>
          /\ pc = "exit0"
          /\ ~ApplySelectionCalled
          /\ ~ExecuteCalled

\* C3 witness: the selector was shown for a pending item and cancelled
C3_Cancelled ==
    /\ PlanCancelled
    /\ exitReason = "plan-cancel"
    /\ \E t \in Range(filteredTasks) : ReportedPending(t)

\* the place of an operation in the lifecycle of a task
Rank(op) == CASE op = "check" -> 1 [] op = "applySelection" -> 2 [] op = "execute" -> 3

\* C4: every selected task sees check, applySelection and execute at most once
\* each; every check has returned before the first applySelection and every
\* applySelection before the first execute, each call being made only when
\* the call before it has returned.
C4_LifecycleOrder ==
    /\ Cardinality(Called) = Len(calls)
    /\ \A i \in 1..(Len(calls) - 1) : Rank(calls[i][2]) <= Rank(calls[i + 1][2])
    /\ \A i \in DOMAIN calls : calls[i][1] \in Range(filteredTasks)
    /\ inflight \subseteq {Len(calls)}
    /\ (ApplySelectionCalled \/ ExecuteCalled) =>
          /\ \A t \in Range(filteredTasks) : <<t, "check">> \in Called
          /\ \A i \in DOMAIN calls : calls[i][2] = "check" => i \notin inflight
    /\ (ExecuteCalled /\ ApplySelectionCalled) =>
          \A t \in Range(filteredTasks) :
              HasApplySelection(t) => <<t, "applySelection">> \in Called

\* C4 witness: a finished run in which a task saw all three operations
C4_FullLifecycle ==
    /\ pc = "done"
    /\ \E t \in Range(filteredTasks) :
          {<<t, "check">>, <<t, "applySelection">>, <<t, "execute">>} \subseteq Called
    /\ Len(filteredTasks) >= 2

\* C5: runAnimatedInstallation returns exactly one result per step, in step
\* order; result i carries the name of step i, with status completed when the
\* run of step i resolved and status failed and the error message when it threw.
C5_OneResultPerStep ==
    pc = "returned" =>
        /\ Len(results) = Len(steps)
        /\ Len(runs) = Len(steps)
        /\ \A i \in DOMAIN steps :
              /\ runs[i].index = i
              /\ results[i].name = steps[i]
              /\ results[i] = IF runs[i].threw
                              THEN [name |-> steps[i], status |-> "failed",
                                    error |-> runs[i].message]
                              ELSE [name |-> steps[i], status |-> "completed"]

\* C5 witness: a returned list with a failed and a completed step
C5_MixedResults ==
    /\ pc = "returned"
    /\ \E i, j \in DOMAIN results :
          /\ i < j
          /\ results[i].status = "failed" /\ results[i].error = "e2"
          /\ results[j].status = "completed"

\* every selected task had its execute called
AllExecuted == \A t \in Range(filteredTasks) : <<t, "execute">> \in Called

\* C6: an execute that throws is recorded as the failure of its task, the
\* execution loop stays on course and can always take its next step, and the
\* run reaches the summary (the end, in the plain runner) only when the
\* execute of every selected task was invoked.
C6_FailureDoesNotStopRun ==
    /\ \A i \in DOMAIN runs : runs[i].threw =>
          /\ <<filteredTasks[runs[i].index], "execute">> \in failures
          /\ mode = "tui" =>
                /\ results[i].name = TaskName(filteredTasks[runs[i].index])
                /\ results[i].status = "failed"
                /\ states[runs[i].index] = "failed"
    /\ pc = "install" => taskIndex \in 1..(Len(filteredTasks) + 1)
    /\ pc = "running" => taskIndex \in 1..Len(filteredTasks)
    /\ (pc = "install" /\ failures # {}) => ENABLED (StepStart \/ FinishInstall)
    /\ (pc \in {"summary", "done"} \/ (pc = "install" /\ taskIndex > Len(filteredTasks))) =>
          /\ AllExecuted
          /\ Len(runs) = Len(filteredTasks)

\* C6 witness: the first of several tasks failed and the run still finished
C6_FinishedAfterFailure ==
    /\ pc = "done"
    /\ Len(runs) >= 2
    /\ runs[1].threw
    /\ ~runs[Len(runs)].threw
    /\ <<filteredTasks[1], "execute">> \in failures

\* the precheck loop is over
ChecksOver ==
    \/ pc \in {"planSelect", "confirm", "install", "running", "summary", "done"}
    \/ pc = "exit0" /\ exitReason \in {"plan-cancel", "declined"}

\* C7: a task whose check threw contributes no selectable category, no
\* warning and no pending work; the check of every other selected task is
\* still called and its warnings shown, and in a finished run every selected
\* task was executed and reported.
C7_CheckFailureIsolated ==
    /\ \A i \in DOMAIN reports : reports[i].threw =>
          /\ \A k \in DOMAIN selectableCategories :
                selectableCategories[k].key # TaskName(reports[i].task)
          /\ \A k \in DOMAIN uiWarnings :
                uiWarnings[k].task # TaskName(reports[i].task)
          /\ ~ReportedPending(reports[i].task)
    /\ hasPendingWork => \E t \in Range(filteredTasks) : ReportedPending(t)
    /\ \A j \in DOMAIN reports : (~reports[j].threw /\ mode = "tui") =>
          \A w \in Range(reports[j].report.warnings) :
              \E k \in DOMAIN uiWarnings :
                  uiWarnings[k] = [task |-> TaskName(reports[j].task), warning |-> w]
    /\ ChecksOver => \A t \in Range(filteredTasks) : <<t, "check">> \in Called
    /\ pc = "done" =>
          /\ AllExecuted
          /\ mode = "tui" => Len(results) = Len(filteredTasks)

\* C7 witness: the check of a task in the middle threw and another task still
\* installed something in a finished run
C7_OthersStillRun ==
    /\ pc = "done"
    /\ \E i \in DOMAIN reports :
          /\ 1 < i /\ i < Len(reports)
          /\ reports[i].threw
          /\ \E c \in DOMAIN cmds :
                cmds[c].op \in StateChangingOps /\ cmds[c].task # reports[i].task

\* the steps on screen in the running state
RunningSteps == {i \in DOMAIN states : states[i] = "running"}

\* C8: at most one check or execute is in flight and at most one step is in
\* the running state; a refresh of the spinner changes no step state, no
\* position of the loop and no result.
C8_SequentialAndCosmeticSpinner ==
    /\ [](Cardinality(inflight) <= 1 /\ Cardinality(RunningSteps) <= 1)
    /\ [][spinnerIndex' # spinnerIndex =>
             UNCHANGED <<steps, states, results, taskIndex, pc, calls, inflight,
                         runs, cmds, failures>>]_vars

\* C8 witness: the spinner was refreshed while the second step was running
C8_TickWhileRunning ==
    /\ spinnerIndex > 0
    /\ pc = "running"
    /\ Cardinality(inflight) = 1
    /\ Cardinality(RunningSteps) = 1
    /\ results # <<>>

ListTasks == {"system-packages", "snap-packages"}

\* C9: the check of the system and of the snap task returns upToDate and
\* toInstall whose union is the requested names and which share no name.
C9_PartitionOfRequested ==
    \A i \in DOMAIN reports :
        (reports[i].task \in ListTasks /\ ~reports[i].threw) =>
            /\ Range(reports[i].report.upToDate) \cup Range(reports[i].report.toInstall)
                  = Range(reports[i].requested)
            /\ Range(reports[i].report.upToDate) \cap Range(reports[i].report.toInstall) = {}

\* C9 witness: a check that found one requested name installed and one not
C9_BothParts ==
    \E i \in DOMAIN reports :
        /\ reports[i].task \in ListTasks
        /\ reports[i].report.upToDate # <<>>
        /\ reports[i].report.toInstall # <<>>
        /\ Len(cmds) > 0

\* the text of a line before its first '#', trimmed
BeforeComment(line) ==
    LET t == Trim(line)
        i == IndexOf(t, Hash)
    IN  IF i < 0 THEN t ELSE Trim(Substring(t, 0, i))

\* the same text with the --classic token taken out
WithoutClassic(item) == Trim(ReplaceFirst(item, ClassicFlag, <<>>))

\* C10: the items parsed from a list file by the system and by the snap task
\* hold no item for a blank line or a line starting with '#', and for a line
\* with an inline '#' only the text before the '#' ("git # editor" gives "git").
C10_CommentsStripped ==
    \A i \in DOMAIN reports :
        (reports[i].task \in ListTasks /\ reports[i].read) =>
            \A k \in DOMAIN reports[i].requested :
                LET item == reports[i].requested[k]
                IN  /\ item # <<>>
                    /\ ~Includes(item, Hash)
                    /\ \E line \in Range(Split(reports[i].text, "\n")) :
                          item \in {BeforeComment(line), WithoutClassic(BeforeComment(line))}

\* the last call made
LastCall == calls[Len(calls)]

\* this step is a call of op on the task under test
DriverStep(op) ==
    /\ Len(calls') = Len(calls) + 1
    /\ calls'[Len(calls')] = <<DriverTask, op>>

\* C11: for every task that implements applySelection (snaps, repositories)
\* and every set S, an applySelection(S) that directly follows an
\* applySelection(S) on the same task changes nothing in the task: the pending
\* items, the snapd flag, the repositories and the selected repository names
\* are those the first call left, so a following execute behaves the same.
C11_ApplyTwiceSameAsOnce ==
    [][(/\ DriverStep("applySelection")
        /\ Len(calls) > 0
        /\ LastCall = <<DriverTask, "applySelection">>
        /\ AppliedIn(selectedItems', Len(calls) + 1) = Applied(Len(calls)))
       => UNCHANGED taskVars]_vars

\* witness of C11: after a check that reported two pending snaps, the same
\* one-name set was applied twice and one snap is left pending
C11_AppliedTwice ==
    /\ mode = "tasks"
    /\ calls = <<<<"snap-packages", "check">>, <<"snap-packages", "applySelection">>,
                 <<"snap-packages", "applySelection">>>>
    /\ Len(reports[1].report.toInstall) = 2
    /\ Applied(2) = {<<"w">>}
    /\ Applied(3) = {<<"w">>}
    /\ SnapNames(snap_toInstall) = <<<<"w">>>>

\* the items the task under test would install or clone now
LeftPending ==
    IF DriverTask = "snap-packages" THEN Range(SnapNames(snap_toInstall))
    ELSE IF DriverTask = "github-repos" THEN Range(gh_repos) \cap gh_selectedRepoNames
    ELSE IF DriverTask = "system-packages" THEN Range(sys_toInstall)
    ELSE {}

\* C12: for every task that implements applySelection (snaps, repositories),
\* an execute that directly follows an applySelection which left no item
\* pending issues no external command at all (no install, no snapd install,
\* no directory creation, no clone) and does not throw.
C12_EmptySelectionNoCommand ==
    [][(/\ DriverStep("execute")
        /\ Len(calls) > 0
        /\ LastCall = <<DriverTask, "applySelection">>
        /\ LeftPending = {})
       => (cmds' = cmds /\ failures' = failures)]_vars

\* C13: for every task variant, as long as check was never called on the
\* task, its execute calls have issued no external command and none has
\* thrown.
C13_ExecuteBeforeCheckIsNoop ==
    (mode = "tasks" /\ <<DriverTask, "check">> \notin Called)
        => (cmds = <<>> /\ failures = {})

\* the commands this step issued
NewCmds == SubSeq(cmds', Len(cmds) + 1, Len(cmds'))

\* the operations that refresh the package index, install or clone
InstallingOps == {"refresh", "install", "install-snapd", "snap-install", "clone"}

\* C14: for every task, an execute that directly follows an execute of the
\* same task (no check and no applySelection in between) issues no refresh,
\* install or clone command.
C14_SecondExecuteIsNoop ==
    [][(/\ DriverStep("execute")
        /\ Len(calls) > 0
        /\ LastCall = <<DriverTask, "execute">>)
       => \A i \in DOMAIN NewCmds : NewCmds[i].op \notin InstallingOps]_vars

\* the names this step passed to a package or snap install command
NewlyInstalled ==
    UNION {Range(NewCmds[i].args) : i \in {j \in DOMAIN NewCmds : NewCmds[j].op \in ItemOps}}

\* C15: for the two package tasks, every name an execute passes to a package
\* or snap install command was reported in toInstall by the most recent check
\* of that task, and no name that check reported as upToDate is passed to an
\* install command.
C15_InstallsOnlyReportedPending ==
    [][(DriverStep("execute") /\ DriverTask \in ListTasks /\ reports # <<>>)
       => /\ NewlyInstalled \subseteq Range(reports[Len(reports)].report.toInstall)
          /\ NewlyInstalled \cap Range(reports[Len(reports)].report.upToDate) = {}]_vars

\* the install invocations this step issued, in order
NewInstalls == SelectSeq(NewCmds, LAMBDA c : c.op = "install")

\* C16: in an execute of the System task the first install invocation is the
\* batch of all pending packages; if it exits non-zero, one install invocation
\* per pending package follows, in the order of the pending list, whether or
\* not some of them exit non-zero too (only an invocation that cannot be
\* spawned ends the sequence); if the batch exits with zero, no individual
\* invocation is issued.
C16_BatchThenIndividualFallback ==
    [][(DriverStep("execute") /\ DriverTask = "system-packages" /\ NewInstalls # <<>>)
       => /\ NewInstalls[1].args = sys_toInstall
          /\ NewInstalls[1].out = "ok" => Len(NewInstalls) = 1
          /\ (/\ NewInstalls[1].out = "fail"
              /\ \A i \in DOMAIN NewInstalls : NewInstalls[i].out # "throw")
             => /\ Len(NewInstalls) = 1 + Len(sys_toInstall)
                /\ \A i \in DOMAIN sys_toInstall :
                       NewInstalls[i + 1].args = <<sys_toInstall[i]>>]_vars

\* witness of C16: the batch failed, the install of the first package failed
\* and the install of the second package was issued all the same
C16_FallbackWentOn ==
    /\ mode = "tasks"
    /\ \E i \in DOMAIN cmds :
          /\ i + 2 \in DOMAIN cmds
          /\ cmds[i].op = "install" /\ cmds[i].args = <<<<"g">>, <<"v">>>>
          /\ cmds[i].out = "fail"
          /\ cmds[i + 1].op = "install" /\ cmds[i + 1].args = <<<<"g">>>>
          /\ cmds[i + 1].out = "fail"
          /\ cmds[i + 2].op = "install" /\ cmds[i + 2].args = <<<<"v">>>>

\* C17: a check of the Snap task that found no snap tool and read a list with
\* at least one app did not throw, reported every requested app in toInstall
\* and none in upToDate, and warned that snapd is missing and will be
\* installed first.
C17_SnapdMissingAllPending ==
    \A i \in DOMAIN reports :
        (/\ reports[i].task = "snap-packages"
         /\ ~reports[i].env.hasTool
         /\ reports[i].requested # <<>>)
        => /\ ~reports[i].threw
           /\ reports[i].report.toInstall = reports[i].requested
           /\ reports[i].report.upToDate = <<>>
           /\ \E w \in DOMAIN reports[i].report.warnings :
                  reports[i].report.warnings[w].msg = "Snapd is missing"

\* witness of C17: a check without the snap tool reported both apps of its
\* list as pending
C17_BothAppsPending ==
    /\ mode = "lists"
    /\ reports # <<>>
    /\ reports[1].task = "snap-packages"
    /\ ~reports[1].env.hasTool
    /\ Len(reports[1].requested) = 2
    /\ reports[1].report.toInstall = reports[1].requested

\* the first page at which the loop of fetchAllRepos ends: the response is
\* not 2xx, or its body is not an array, or it is an empty array
Stops(pages, page) ==
    LET response == ServerResponse(pages, page)
    IN  ~response.ok \/ ~response.isArray \/ response.repos = <<>>

FirstStop(pages) == SetMin({page \in 1..(Len(pages) + 1) : Stops(pages, page)})

RECURSIVE Concatenated(_, _)
\* the repositories of the first n pages, in order
Concatenated(pages, n) ==
    IF n = 0 THEN <<>> ELSE Concatenated(pages, n - 1) \o pages[n].repos

\* a check that got as far as fetching
Fetched(r) == r.task = "github-repos" /\ r.env.hasTool /\ r.env.token # <<>>

\* C19: a check of the GitHub task that fetches (it is the only call made,
\* so cmds holds what it issued) requests the pages 1, 2, 3, ... in increasing
\* order up to and including the first page that is not
\* 2xx, not an array or empty, and no page after it; when that page is 2xx the
\* repositories it returns are those of the earlier pages, concatenated in
\* order.  For the pages of sizes 100, 100, 37, 0 it makes exactly 4 requests
\* and returns 237 repositories.
C19_PagesInOrderUntilFirstStop ==
    \A i \in DOMAIN reports :
        (mode = "fetch" /\ Fetched(reports[i]))
        => LET pages == reports[i].env.pages
               log   == cmds
               stop  == FirstStop(pages)
           IN  /\ Len(log) = stop
               /\ \A k \in DOMAIN log : log[k].op = "http-get" /\ log[k].args = <<k>>
               /\ ServerResponse(pages, stop).ok
                  => reports[i].report.toInstall = Concatenated(pages, stop - 1)
               /\ pages = ExampleServer
                  => Len(log) = 4 /\ Len(reports[i].report.toInstall) = 237

\* witness of C19: the large account was fetched in four requests
C19_FetchedLargeAccount ==
    /\ mode = "fetch"
    /\ reports # <<>>
    /\ Fetched(reports[1])
    /\ reports[1].env.pages = ExampleServer
    /\ Len(cmds) = 4
    /\ Len(gh_repos) = 237

\* the most recent check of the task under test
LastReport == reports[Len(reports)]

\* a check of the GitHub task made without git or without a token
Skipped(r) == r.task = "github-repos" /\ (~r.env.hasTool \/ r.env.token = <<>>)

\* C18: a check of the GitHub task made while the token is empty or git is
\* unavailable returns normally with an empty toInstall and a warning and
\* makes no HTTP request; an execute whose most recent check was such a check
\* issues no command, so it clones nothing.
C18_NoTokenOrNoGitSkips ==
    [][/\ (DriverStep("check") /\ Skipped(reports'[Len(reports')]))
          => /\ ~reports'[Len(reports')].threw
             /\ reports'[Len(reports')].report.toInstall = <<>>
             /\ reports'[Len(reports')].report.warnings # <<>>
             /\ NewCmds = <<>>
       /\ (DriverStep("execute") /\ reports # <<>> /\ Skipped(LastReport))
          => NewCmds = <<>> /\ failures' = failures]_vars

\* witness of C18: git was there but no token was set; check warned and the
\* execute after it issued nothing
C18_ExecutedWithoutToken ==
    /\ mode = "tasks"
    /\ calls = <<<<"github-repos", "check">>, <<"github-repos", "execute">>>>
    /\ reports[1].env.hasTool
    /\ reports[1].env.token = <<>>
    /\ reports[1].report.warnings # <<>>
    /\ cmds = <<>>

\* a check of the GitHub task whose fetch met a response that is not 2xx
FetchFailed(r) ==
    Fetched(r) /\ ~ServerResponse(r.env.pages, FirstStop(r.env.pages)).ok

\* C20: a check of the GitHub task whose fetch gets a response that is not
\* 2xx, on the first page or a later one, returns normally with an empty
\* toInstall and a warning that quotes the HTTP status, and keeps none of the
\* repositories of the earlier pages; an execute whose most recent check was
\* such a check issues no command, so it clones nothing.
C20_FetchErrorIsAWarning ==
    [][/\ (DriverStep("check") /\ FetchFailed(reports'[Len(reports')]))
          => LET r == reports'[Len(reports')]
             IN  /\ ~r.threw
                 /\ r.report.toInstall = <<>>
                 /\ \E w \in DOMAIN r.report.warnings :
                        r.report.warnings[w].detail
                            = ServerResponse(r.env.pages, FirstStop(r.env.pages)).status
                 /\ gh_repos' = <<>>
       /\ (DriverStep("execute") /\ reports # <<>> /\ FetchFailed(LastReport))
          => NewCmds = <<>> /\ failures' = failures]_vars

\* witness of C20: the second page answered 500 after a first page of one
\* repository; check warned, and the execute after it issued nothing
C20_ExecutedAfterFailedFetch ==
    /\ mode = "tasks"
    /\ calls = <<<<"github-repos", "check">>, <<"github-repos", "execute">>>>
    /\ FetchFailed(reports[1])
    /\ reports[1].report.warnings[1].detail = 500
    /\ Len(cmds) = 2
    /\ gh_repos = <<>>

\* the fetched repositories that are selected, in fetched order
SelectedRepos == SelectSeq(gh_repos, LAMBDA repo : repo \in gh_selectedRepoNames)

\* the place of a repository among the selected ones
SelectedIndex(repo) == CHOOSE p \in DOMAIN SelectedRepos : SelectedRepos[p] = repo

\* this step is an execute of the GitHub task
GitHubExecuteStep == DriverStep("execute") /\ DriverTask = "github-repos"

\* the places in this step's commands where a target directory was found to
\* hold a .git entry
FoundCloned ==
    {i \in DOMAIN NewCmds : NewCmds[i].op = "git-dir-exists" /\ NewCmds[i].out = "present"}

\* C21: for every selected repository whose target directory already holds a
\* .git entry, the GitHub execute issues no directory creation and no clone
\* for it, the execute fails only where a command could not be spawned, and
\* the next thing it does is look at the next selected repository's
\* directory.
C21_AlreadyClonedIsSkipped ==
    [][GitHubExecuteStep =>
        /\ \A i \in FoundCloned :
              /\ \A j \in DOMAIN NewCmds :
                    NewCmds[j].op \in {"mkdir", "clone"} => NewCmds[j].args # NewCmds[i].args
              /\ LET p == SelectedIndex(NewCmds[i].args[1])
                 IN  p < Len(SelectedRepos) =>
                        /\ i < Len(NewCmds)
                        /\ NewCmds[i + 1].op = "git-dir-exists"
                        /\ NewCmds[i + 1].args = <<SelectedRepos[p + 1]>>
        /\ (failures' # failures => \E j \in DOMAIN NewCmds : NewCmds[j].out = "throw")]_vars

\* an execute found the first repository cloned, skipped it and cloned the
\* second
C21_SkippedFirstClonedSecond ==
    /\ mode = "tasks"
    /\ failures = {}
    /\ \E i \in DOMAIN cmds :
          /\ i + 3 <= Len(cmds)
          /\ cmds[i].op = "git-dir-exists" /\ cmds[i].out = "present"
          /\ cmds[i].args = <<DriverRepoNames[1]>>
          /\ cmds[i + 1].op = "git-dir-exists" /\ cmds[i + 1].out = "absent"
          /\ cmds[i + 1].args = <<DriverRepoNames[2]>>
          /\ cmds[i + 3].op = "clone" /\ cmds[i + 3].args = <<DriverRepoNames[2]>>
          /\ cmds[i + 3].out = "ok"

\* the commands of this step after place i
NewCmdsAfter(i) == SubSeq(NewCmds, i + 1, Len(NewCmds))

\* the repositories named by the commands of a log, in the log's order
ReposOf(log) == [i \in DOMAIN log |-> log[i].args[1]]

\* the places in this step's commands where a clone exited non-zero
FailedClones == {i \in DOMAIN NewCmds : NewCmds[i].op = "clone" /\ NewCmds[i].out = "fail"}

\* C22: when the clone of one repository exits non-zero, the GitHub execute
\* goes on: unless a later command cannot be spawned, it looks at the
\* directory of every selected repository after the failed one, in fetched
\* order, and issues a clone for each of them that is not already cloned, in
\* that order.
C22_CloneFailureDoesNotStopTheRest ==
    [][GitHubExecuteStep =>
        \A i \in FailedClones :
            LET after == NewCmdsAfter(i)
                p == SelectedIndex(NewCmds[i].args[1])
            IN  (\A j \in DOMAIN after : after[j].out # "throw") =>
                   /\ ReposOf(SelectSeq(after, LAMBDA c : c.op = "git-dir-exists"))
                        = SubSeq(SelectedRepos, p + 1, Len(SelectedRepos))
                   /\ ReposOf(SelectSeq(after, LAMBDA c : c.op = "clone"))
                        = ReposOf(SelectSeq(after, LAMBDA c : c.op = "git-dir-exists"
                                                              /\ c.out = "absent"))]_vars

\* the clone of the first repository exited non-zero and the second
\* repository was cloned after it
C22_SecondClonedAfterFailedFirst ==
    /\ mode = "tasks"
    /\ \E i \in DOMAIN cmds :
          /\ i + 3 <= Len(cmds)
          /\ cmds[i].op = "clone" /\ cmds[i].out = "fail"
          /\ cmds[i].args = <<DriverRepoNames[1]>>
          /\ cmds[i + 1].op = "git-dir-exists" /\ cmds[i + 1].out = "absent"
          /\ cmds[i + 3].op = "clone" /\ cmds[i + 3].args = <<DriverRepoNames[2]>>

\* this step ends the token prompt without a token: the entry was cancelled
TokenCancelled == pc = "tokenPrompt" /\ pc' # "tokenPrompt" /\ gh_authToken' = <<>>

\* C23: when the user cancels the task selection, or no task is left to run
\* (also when the GitHub task was the only one selected and the token entry
\* was cancelled), the process exits with status 0, no task's check,
\* applySelection or execute has been called, no command has been issued, and
\* nothing happens after the exit.
C23_CancelOrNoTaskExitsZero ==
    [][/\ exitReason' \in {"task-cancel", "no-task"}
            => (pc' = "exit0" /\ calls' = <<>> /\ cmds' = <<>> /\ reports' = <<>>)
       /\ (pc \in {"taskSelect", "tokenPrompt"} /\ filteredTasks' = <<>>
            /\ pc' \notin {"taskSelect", "tokenPrompt"})
            => (pc' = "exit0" /\ exitReason' \in {"task-cancel", "no-task"})
       /\ (TokenCancelled /\ selectedTaskSet = {"github-repos"})
            => (pc' = "exit0" /\ exitReason' = "no-task")
       /\ pc = "exit0" => (pc' = "exit0" /\ calls' = calls)]_vars

\* the run ended with status 0 because no task was left to run
C23_ExitedWithNoTask ==
    /\ pc = "exit0"
    /\ exitReason = "no-task"
    /\ selectedTaskSet = {}
    /\ calls = <<>>

\* C24: when initialize throws (no `id`, or none of apt, dnf, pacman, zypper
\* on the PATH, which leaves the package manager unset), main exits with
\* status 1 straight from the initialization: the task selector was never
\* opened, no task's check, applySelection or execute has been called, no
\* command was issued, and nothing happens after the exit.
C24_InitFailureExitsNonZero ==
    [][/\ (pc = "init" /\ pc' # "init" /\ packageManager' \notin Range(Managers))
            => (/\ pc' = "exit1"
                /\ exitReason' = "init-failed"
                /\ calls' = <<>> /\ cmds' = <<>> /\ reports' = <<>>
                /\ selectedTaskIds' = <<>> /\ filteredTasks' = <<>>)
       /\ pc' = "exit1" => (pc \in {"init", "exit1"} /\ calls' = <<>>)
       /\ pc = "exit1" => (pc' = "exit1" /\ calls' = calls)]_vars

\* the run ended with status 1 because no package manager was found
C24_ExitedOnFailedInit ==
    /\ pc = "exit1"
    /\ exitReason = "init-failed"
    /\ packageManager = ""
    /\ calls = <<>>

\* C25: once initialize has returned, no step changes the context's
\* packageManager or isSudo (no check, applySelection or execute among them),
\* and in the animated runner the context handed to execute carries the
\* values initialize detected.
C25_ContextFixedAfterInit ==
    [][/\ pc # "init" => (packageManager' = packageManager /\ isSudo' = isSudo)
       /\ (mode = "tui" /\ (pc' = "install" \/ ExecuteCalled'))
            => animatedContext' = [packageManager |-> packageManager, isSudo |-> isSudo]]_vars

\* the animated runner called an execute with the detected manager and the
\* sudo flag in the context it was handed
C25_ExecutedWithDetectedContext ==
    /\ mode = "tui"
    /\ ExecuteCalled
    /\ packageManager = "dnf"
    /\ isSudo
    /\ animatedContext = [packageManager |-> "dnf", isSudo |-> TRUE]

\* the commands a check may issue: listing the installed packages or snaps
\* (output captured) and the GET of a page of repositories
CheckOps == {"query-installed", "snap-list", "http-get"}

\* C26: no check of any task issues a state-changing command: whatever list
\* file and tools are present, the commands a check issues are
\* capture-output queries and HTTP GETs only, never a refresh, an install, a
\* service enable, a directory creation, a clone or a settings change.
C26_CheckOnlyQueries ==
    [][DriverStep("check") =>
        \A i \in DOMAIN NewCmds :
            NewCmds[i].op \in CheckOps /\ NewCmds[i].op \notin StateChangingOps]_vars

\* the system packages were checked twice against a list file and each
\* check listed the installed packages
C26_CheckedWithQueries ==
    /\ mode = "tasks"
    /\ calls = <<<<"system-packages", "check">>, <<"system-packages", "check">>>>
    /\ Len(cmds) = 2
    /\ \A i \in DOMAIN cmds : cmds[i].op = "query-installed"
    /\ reports[2].read

\* the items the execute of task t took up: installed, cloned, or looked at
\* and found already cloned
TakenUp(t) ==
    UNION {Range(cmds[i].args) :
             i \in {j \in DOMAIN cmds : /\ cmds[j].task = t
                                        /\ cmds[j].op \in ItemOps \cup {"git-dir-exists"}}}

\* the items the check of task t planned
PlannedBy(t) ==
    UNION {Range(reports[i].report.toInstall) :
             i \in {j \in DOMAIN reports : reports[j].task = t /\ ~reports[j].threw}}

\* the execute of task t was called and returned without throwing
ExecuteReturned(t) ==
    /\ <<t, "execute">> \notin failures
    /\ \E i \in DOMAIN calls : calls[i] = <<t, "execute">> /\ i \notin inflight

\* task t has a key in the mapping the item selector returned
HasKey(t) == TaskName(t) \in DOMAIN selection.selectedByCategory

\* C27 as stated: a task without a key in the returned selection mapping runs
\* unfiltered, its execute takes up every item its check planned.
C27_AbsentKeyRunsUnfiltered ==
    (mode = "tui" /\ selection.confirmed) =>
        \A t \in Range(filteredTasks) :
            (~HasKey(t) /\ ExecuteReturned(t)) => TakenUp(t) = PlannedBy(t)

\* C27: a task without a key in the returned selection mapping is handed the
\* empty set if it implements applySelection (snaps, repositories), and its
\* execute then takes up none of the items its check planned; only a task
\* without applySelection (system packages, dotfiles, GNOME settings) runs
\* unfiltered and takes up every item its check planned.
C27_AbsentKeyNarrowsToNothing ==
    (mode = "tui" /\ selection.confirmed) =>
        \A t \in Range(filteredTasks) :
            (~HasKey(t) /\ ExecuteReturned(t)) =>
                TakenUp(t) = IF HasApplySelection(t) THEN {} ELSE PlannedBy(t)

\* the snap check planned an item, the returned mapping has no key for the
\* snap task, and its execute returned having installed nothing
C27_SnapsDeselectedNothingInstalled ==
    /\ mode = "tui"
    /\ selection.confirmed
    /\ "snap-packages" \in Range(filteredTasks)
    /\ PlannedBy("snap-packages") # {}
    /\ ~HasKey("snap-packages")
    /\ ExecuteReturned("snap-packages")
    /\ TakenUp("snap-packages") = {}

\* the categories the item selector shows
ShownCategories == Normalized(selectableCategories)

\* the items of a category that are selected now, in the category's order
SelectedOf(category) ==
    SelectSeq(category.items, LAMBDA item : <<category.key, item>> \in selectedItems)

\* the category of a key
CategoryOf(key) ==
    ShownCategories[CHOOSE i \in DOMAIN ShownCategories : ShownCategories[i].key = key]

\* every item of the categories, as the pair of its category and its name
AllItemsOf(categories) ==
    UNION {{<<categories[i].key, categories[i].items[j]>> : j \in DOMAIN categories[i].items} :
             i \in DOMAIN categories}

\* C28: the item selector opens with every item of every category selected;
\* on Enter it returns confirmed with a mapping whose keys are the categories
\* that have a selected item, each mapped to its selected items in their
\* original order; on Escape it returns confirmed = false with an empty
\* mapping.
C28_SelectorReturnsCurrentSelection ==
    [][/\ (pc # "planSelect" /\ pc' = "planSelect")
            => selectedItems' = AllItemsOf(ShownCategories')
       /\ (pc = "planSelect" /\ pc' = "confirm")
            => /\ selection'.confirmed
               /\ DOMAIN selection'.selectedByCategory =
                     {ShownCategories[i].key :
                        i \in {k \in DOMAIN ShownCategories : SelectedOf(ShownCategories[k]) # <<>>}}
               /\ \A key \in DOMAIN selection'.selectedByCategory :
                     selection'.selectedByCategory[key] = SelectedOf(CategoryOf(key))
       /\ (pc = "planSelect" /\ pc' = "exit0")
            => (~selection'.confirmed /\ DOMAIN selection'.selectedByCategory = {})]_vars

\* two categories were shown and Enter returned a mapping with a key for only
\* one of them
C28_ReturnedOneOfTwoCategories ==
    /\ mode = "tui"
    /\ selection.confirmed
    /\ Len(ShownCategories) = 2
    /\ Cardinality(DOMAIN selection.selectedByCategory) = 1

\* this step is an execute that directly follows check and then
\* applySelection on a task that implements applySelection
ExecuteAfterCheckAndApply ==
    /\ DriverStep("execute")
    /\ HasApplySelection(DriverTask)
    /\ Len(calls) >= 2
    /\ calls[Len(calls) - 1] = <<DriverTask, "check">>
    /\ calls[Len(calls)] = <<DriverTask, "applySelection">>

\* the planned items that are in the applied set, in planned order
PlannedInApplied ==
    SelectSeq(LastReport.report.toInstall, LAMBDA name : name \in Applied(Len(calls)))

\* the items this step took up, in the order it took them up: the snaps it
\* installed, the repositories whose directory it looked at
TakenUpInOrder ==
    ReposOf(SelectSeq(NewCmds, LAMBDA c : c.op \in {"snap-install", "git-dir-exists"}))

\* C29: an execute that follows check and applySelection(S) on the snap or
\* GitHub task takes up exactly the planned items that are in S, in planned
\* order (all of them unless a command could not be spawned, then the ones
\* before it), and installs or clones no other name; a name in S that check
\* did not plan is never installed or cloned.
C29_ExecuteActsOnPlannedInSelection ==
    [][ExecuteAfterCheckAndApply =>
        /\ Len(TakenUpInOrder) <= Len(PlannedInApplied)
        /\ TakenUpInOrder = SubSeq(PlannedInApplied, 1, Len(TakenUpInOrder))
        /\ (\A i \in DOMAIN NewCmds : NewCmds[i].out # "throw")
              => TakenUpInOrder = PlannedInApplied
        /\ NewlyInstalled \subseteq Range(PlannedInApplied)]_vars

\* the snap check planned two snaps, applySelection was given the second of
\* them only, and execute installed the second and not the first
C29_InstalledTheSelectedPlannedSnap ==
    /\ mode = "tasks"
    /\ calls = <<<<"snap-packages", "check">>, <<"snap-packages", "applySelection">>,
                 <<"snap-packages", "execute">>>>
    /\ Len(reports[1].report.toInstall) = 2
    /\ Applied(2) = {reports[1].report.toInstall[2]}
    /\ \E i \in DOMAIN cmds : cmds[i].op = "snap-install" /\ cmds[i].out = "ok"
    /\ \A i \in DOMAIN cmds :
          cmds[i].op = "snap-install" => cmds[i].args = <<reports[1].report.toInstall[2]>>

\* the order in which main defines the tasks
DefinitionOrder ==
    <<"system-packages", "dotfiles", "snap-packages", "gnome-settings", "github-repos">>

\* the tasks of a set in definition order
InDefinitionOrder(taskSet) == SelectSeq(DefinitionOrder, LAMBDA id : id \in taskSet)

\* how many calls of op have been made
CallCount(op) == Cardinality({i \in DOMAIN calls : calls[i][2] = op})

\* this step of a runner calls op on some task
RunnerCalls(op) ==
    /\ mode \in RunnerModes
    /\ Len(calls') = Len(calls) + 1
    /\ calls'[Len(calls')][2] = op

\* C30: in both phases the tasks are taken in the order main defines them
\* (system packages, dotfiles, snaps, GNOME settings, GitHub): the n-th check
\* and the n-th execute are on the n-th of the tasks to run in that order,
\* and the tasks to run on leaving the task selector are the toggled-on tasks
\* in definition order, whatever the order in which they were toggled on.
C30_DefinitionOrderInBothPhases ==
    [][/\ \A op \in {"check", "execute"} :
             RunnerCalls(op) =>
                /\ CallCount(op) < Len(InDefinitionOrder(Range(filteredTasks)))
                /\ calls'[Len(calls')][1]
                     = InDefinitionOrder(Range(filteredTasks))[CallCount(op) + 1]
       /\ (pc = "taskSelect" /\ pc' = "preCheck")
             => filteredTasks' = InDefinitionOrder(Range(selectedTaskIds))]_vars

\* the interactive runner checked two tasks and then executed the same two,
\* snaps before GNOME settings in both phases
C30_TwoTasksBothPhasesInOrder ==
    /\ mode = "tui"
    /\ filteredTasks = <<"snap-packages", "gnome-settings">>
    /\ Len(calls) >= 4
    /\ calls[1] = <<"snap-packages", "check">>
    /\ calls[2] = <<"gnome-settings", "check">>
    /\ CallCount("execute") = 2
    /\ calls[Len(calls) - 1] = <<"snap-packages", "execute">>
    /\ calls[Len(calls)] = <<"gnome-settings", "execute">>

\* this step is an execute of the system packages task
SystemExecuteStep == DriverStep("execute") /\ DriverTask = "system-packages"

\* the places of the commands of one operation among this step's commands
NewPlaces(op) == {i \in DOMAIN NewCmds : NewCmds[i].op = op}

\* C31: with at least one package left in _toInstall, the system packages
\* execute issues exactly one repository refresh, as its first command, and
\* once the refresh has ended (whatever its exit status) the batch install of
\* all pending names comes next, before any individual install; with nothing
\* left in _toInstall it issues no command at all.
C31_OneRefreshBeforeBatchInstall ==
    [][SystemExecuteStep =>
        IF sys_toInstall = <<>> THEN NewCmds = <<>>
        ELSE /\ NewPlaces("refresh") = {1}
             /\ \A i \in NewPlaces("install") : i > 1
             /\ NewCmds[1].out = "throw" => (Len(NewCmds) = 1 /\ <<DriverTask, "execute">> \in failures')
             /\ NewCmds[1].out # "throw" =>
                   /\ Len(NewCmds) >= 2
                   /\ NewCmds[2].op = "install"
                   /\ NewCmds[2].args = sys_toInstall]_vars

\* the refresh exited non-zero and the batch install of both pending
\* packages followed it
C31_BatchAfterRefreshThatExitedNonZero ==
    /\ mode = "tasks"
    /\ DriverTask = "system-packages"
    /\ Len(cmds) = 3
    /\ cmds[2].op = "refresh" /\ cmds[2].out = "fail"
    /\ cmds[3].op = "install" /\ Len(cmds[3].args) = 2 /\ cmds[3].out = "ok"

\* this step is an execute of the snap task
SnapExecuteStep == DriverStep("execute") /\ DriverTask = "snap-packages"

\* C32: when check flagged snapd missing and an app is still pending, the
\* snap execute issues the snapd install first, then the service enable, and
\* only then the first snap install (a command that cannot be spawned ends
\* the execute there); when snapd is not flagged missing it issues neither
\* the snapd install nor the service enable.
C32_SnapdInstalledAndEnabledFirst ==
    [][SnapExecuteStep =>
        IF snap_needsSnapd /\ snap_toInstall # <<>>
        THEN /\ NewPlaces("install-snapd") = {1}
             /\ NewCmds[1].out # "throw" =>
                   /\ NewPlaces("enable-snapd") = {2}
                   /\ \A i \in NewPlaces("snap-install") : i > 2
        ELSE NewPlaces("install-snapd") = {} /\ NewPlaces("enable-snapd") = {}]_vars

\* the snap installs of this step, in the order they were issued, each as the
\* request it was issued for
NewSnapInstalls ==
    LET installs == SelectSeq(NewCmds, LAMBDA c : c.op = "snap-install")
    IN  [i \in DOMAIN installs |-> [name |-> installs[i].args[1], flags |-> installs[i].flags]]

\* the list line of the most recent check that names the app, with --classic
ClassicLineOf(name) ==
    \E line \in Range(Split(LastReport.text, "\n")) :
        /\ Includes(BeforeComment(line), ClassicFlag)
        /\ WithoutClassic(BeforeComment(line)) = name

\* C33: the snap execute issues one install per pending app, in list order,
\* each with the flags recorded for the app (--classic only where the app's
\* list line holds it), all of them unless a command could not be spawned
\* (then the ones before it); an install that exits non-zero is followed by
\* the installs of the later apps.
C33_OneSnapInstallPerPendingApp ==
    [][SnapExecuteStep =>
        /\ Len(NewSnapInstalls) <= Len(snap_toInstall)
        /\ NewSnapInstalls = SubSeq(snap_toInstall, 1, Len(NewSnapInstalls))
        /\ (\A i \in DOMAIN NewCmds : NewCmds[i].out # "throw")
              => NewSnapInstalls = snap_toInstall
        /\ \A i \in DOMAIN NewSnapInstalls :
              /\ NewSnapInstalls[i].flags \in {<<>>, <<ClassicFlag>>}
              /\ NewSnapInstalls[i].flags = <<ClassicFlag>>
                    => ClassicLineOf(NewSnapInstalls[i].name)]_vars

\* the install of the first app exited non-zero and the second app was
\* installed after it with --classic
C33_ClassicInstalledAfterFailedInstall ==
    /\ mode = "tasks"
    /\ \E i \in DOMAIN cmds :
          /\ i < Len(cmds)
          /\ cmds[i].op = "snap-install" /\ cmds[i].flags = <<>> /\ cmds[i].out = "fail"
          /\ cmds[i + 1].op = "snap-install" /\ cmds[i + 1].flags = <<ClassicFlag>>
          /\ cmds[i + 1].out = "ok"

\* the result pushed for this step's execute
NewResult == results'[Len(results')]

\* a command of this step could not be spawned
SpawnFailed == \E i \in DOMAIN NewCmds : NewCmds[i].out = "throw"

\* an install, snap install or clone of this step exited non-zero
ItemFailed == \E i \in DOMAIN NewCmds : NewCmds[i].op \in ItemOps /\ NewCmds[i].out = "fail"

\* the items this step's commands name: installed, cloned, or looked at and
\* found already cloned
NewlyTakenUp ==
    UNION {Range(NewCmds[i].args) :
             i \in {j \in DOMAIN NewCmds : NewCmds[j].op \in ItemOps \cup {"git-dir-exists"}}}

\* C34: an install, snap install or clone that exits non-zero does not make
\* execute throw: unless a command could not be spawned, every pending item
\* is still taken up and the step is recorded as completed; a step is
\* recorded as failed exactly when its execute threw, which happens only
\* when a command could not be spawned.
C34_ItemFailureIsNotATaskFailure ==
    [][DriverStep("execute") =>
        /\ Len(results') = Len(results) + 1
        /\ NewResult.name = TaskName(DriverTask)
        /\ NewResult.status = IF SpawnFailed THEN "failed" ELSE "completed"
        /\ (ItemFailed /\ ~SpawnFailed) => NewlyTakenUp = LeftPending]_vars

\* a clone exited non-zero, the other repository was cloned, and the step
\* was recorded as completed
C34_CompletedDespiteFailedClone ==
    /\ mode = "tasks"
    /\ DriverTask = "github-repos"
    /\ Len(results) = 1
    /\ results[1].status = "completed"
    /\ \E i, j \in DOMAIN cmds :
          /\ cmds[i].op = "clone" /\ cmds[i].out = "fail"
          /\ cmds[j].op = "clone" /\ cmds[j].out = "ok"

\* every row of the item selector is shown as selected
EveryItemSelected == \A i \in DOMAIN flatItems : flatItems[i].id \in selectedItems

\* C35: in the item selector, whatever the items are (a name may occur more
\* than once in a category), the key A deselects every item when every item
\* is selected and selects every item otherwise.
C35_ToggleAllFlips ==
    pc = "planSelect" =>
        LET after == toggleAllItems(selectedItems, flatItems)
        IN  IF EveryItemSelected THEN after = {}
            ELSE \A i \in DOMAIN flatItems : flatItems[i].id \in after

\* C36: when a check of a task with items returns (a repeated check whose
\* list file has gone missing or become empty, or a repeated GitHub check
\* that fails, included), the items an execute would act on next are exactly
\* the toInstall that check reported: nothing planned by an earlier check is
\* left.
C36_CheckReplacesThePlan ==
    [][(/\ DriverStep("check")
        /\ DriverTask \in ItemTasks
        /\ ~reports'[Len(reports')].threw)
       => LeftPending' = Range(reports'[Len(reports')].report.toInstall)]_vars

\* this step ends the token prompt with a token
TokenConfirmed == pc = "tokenPrompt" /\ pc' # "tokenPrompt" /\ gh_authToken' # <<>>

\* C37: when the GitHub task is selected and the token entry is cancelled,
\* the run goes on to PreCheck with exactly the other selected tasks, and no
\* check or execute of the GitHub task is ever called without a token; the
\* token prompt ends with a token only when the text typed is non-empty
\* after trimming, and the token it hands over is that trimmed text.
C37_CancelledTokenSkipsGitHubOnly ==
    [][/\ TokenCancelled
            => /\ Range(filteredTasks') = selectedTaskSet \ {"github-repos"}
               /\ selectedTaskSet # {"github-repos"} => pc' = "preCheck"
       /\ TokenConfirmed
            => /\ Trim(token) # <<>>
               /\ gh_authToken' = Trim(token)
               /\ Range(filteredTasks') = selectedTaskSet
       /\ gh_authToken' = <<>>
            => \A i \in DOMAIN calls' : calls'[i][1] # "github-repos"]_vars

\* the prompt handed over the token typed between two blanks, trimmed, and
\* the GitHub task was checked with it next to another task
C37_TrimmedTokenHandedOver ==
    /\ mode = "tui"
    /\ gh_authToken = <<"t">>
    /\ <<"github-repos", "check">> \in Called
    /\ <<"system-packages", "check">> \in Called

\* the result a command of initialize ended with, "none" when it was not run
InitializeOut(op) ==
    IF \E i \in DOMAIN cmds : cmds[i].task = "context" /\ cmds[i].op = op
    THEN cmds[CHOOSE i \in DOMAIN cmds : cmds[i].task = "context" /\ cmds[i].op = op].out
    ELSE "none"

\* C38: after initialize, isSudo is true only if `id -u` printed 0 or
\* `sudo -v` succeeded; when `sudo -v` exits non-zero, isSudo is false.
C38_SudoOnlyForRootOrGrantedSudo ==
    pc \notin {"context", "exit1"} =>
        /\ isSudo => (InitializeOut("id-u") = "root" \/ InitializeOut("sudo-v") = "ok")
        /\ InitializeOut("sudo-v") = "fail" => ~isSudo

\* runAnimatedInstallation has finished
AnimationFinished == pc = "returned"

====
